---- MODULE Spec2Model ----
(***************************************************************************)
(* woo-hoo: generation of DIWOO metadata from document text with an LLM.   *)
(*                                                                         *)
(* The module models                                                       *)
(*   - the retry policy (utils/retry.py: with_retry),                      *)
(*   - the provider client (services/openrouter.py: OpenRouterClient),     *)
(*   - the generation orchestrator (services/metadata_generator.py:        *)
(*     MetadataGenerator.generate) and its callers (api/routers/metadata), *)
(*   - the two output transformers (_transform_to_diwoo for JSON,          *)
(*     services/xml_parser.py: parse_xml_to_diwoo for XML) and the         *)
(*     validation of the domain model (models/diwoo.py).                   *)
(*                                                                         *)
(* Short strings the code inspects character by character (category names, *)
(* the trailing code of a TOOI URI) are sequences of one-character         *)
(* strings.  A long text (a title) is a prefix of a named source text:     *)
(* [text, len].                                                            *)
(***************************************************************************)
EXTENDS Integers, Sequences, FiniteSets, TLC

(***************************************************************************)
(* Bounds of the model.                                                    *)
(***************************************************************************)
\* largest llm_max_retries a configuration is given
MaxAttempts == 7
\* longest list of categories / handling events in an LLM output
MaxItems == 2

(***************************************************************************)
(* Program constants.                                                      *)
(***************************************************************************)
\* RetryConfig(base_delay=1.0) in OpenRouterClient.__init__
BaseDelay == 1
\* RetryConfig(max_delay=30.0) in OpenRouterClient.__init__
MaxDelay == 30
\* RetryConfig.exponential_base
ExponentialBase == 2
\* Settings.llm_max_retries default
DefaultMaxRetries == 3
\* TitelCollectie.officiele_titel max_length, and the slice [:2000]
MaxTitleLen == 2000
\* len("Onbekende titel")
DefaultTitleLen == 15
\* ConfidenceScores(overall=0.8) of XML mode, in hundredths
XmlOverallConfidence == 80
\* the default overall confidence of JSON mode (0.7), in hundredths
DefaultOverallConfidence == 70

Min(a, b) == IF a <= b THEN a ELSE b

(***************************************************************************)
(* Characters and strings.                                                 *)
(***************************************************************************)
LowerLetters ==
  <<"a","b","c","d","e","f","g","h","i","j","k","l","m",
    "n","o","p","q","r","s","t","u","v","w","x","y","z">>
Digits == {"0","1","2","3","4","5","6","7","8","9"}

IsLower(c) == \E i \in 1..Len(LowerLetters) : LowerLetters[i] = c

\* str.upper() on one character
UpperChar(c) ==
  LET UpperLetters ==
        <<"A","B","C","D","E","F","G","H","I","J","K","L","M",
          "N","O","P","Q","R","S","T","U","V","W","X","Y","Z">>
  IN  IF IsLower(c)
      THEN UpperLetters[CHOOSE i \in 1..Len(LowerLetters) : LowerLetters[i] = c]
      ELSE c

\* s.upper()
Upper(s) == [i \in 1..Len(s) |-> UpperChar(s[i])]

\* s.upper().replace(" ", "_")
NormaliseName(s) ==
  [i \in 1..Len(s) |-> IF s[i] = " " THEN "_" ELSE UpperChar(s[i])]

\* the character class without the underscore: [a-z0-9]
IsCodeChar_noUnderscore(c) == IsLower(c) \/ c \in Digits

\* the character class [a-z0-9_] of the code pattern
IsCodeChar(c) == IsLower(c) \/ c \in Digits \/ c = "_"

NoString == [kind |-> "none", chars |-> <<>>]
Str(s) == [kind |-> "str", chars |-> s]

\* _extract_category_code: resource is [kind, chars], the attribute's value
\* after the last "/" (None when the attribute is missing)
ExtractCategoryCode(resource) ==
  LET \* re.search(r"(c_[a-z0-9_]+)$", resource): the leftmost position from which
      \* "c_" and one or more code characters run to the end of the string
      CodeMatchStarts(s) ==
        { i \in 1..Len(s) :
            /\ i + 2 <= Len(s)
            /\ s[i] = "c"
            /\ s[i + 1] = "_"
            /\ \A j \in (i + 2)..Len(s) : IsCodeChar(s[j]) }
  IN  IF resource.kind = "none" \/ Len(resource.chars) = 0
      THEN NoString
      ELSE IF CodeMatchStarts(resource.chars) = {}
           THEN NoString
           ELSE LET i == CHOOSE k \in CodeMatchStarts(resource.chars) :
                           \A m \in CodeMatchStarts(resource.chars) : k <= m
                IN  Str(SubSeq(resource.chars, i, Len(resource.chars)))

(***************************************************************************)
(* Taxonomy (models/enums.py).                                             *)
(***************************************************************************)
InformatieCategorie ==
  << [name |-> <<"W","E","T","T","E","N","_","A","V","V">>,
      value |-> <<"c","_","4","1","9","1","a","6","4","8">>],
     [name |-> <<"O","V","E","R","I","G","E","_","B","E","S","L","U","I","T","E","N","_","A","S">>,
      value |-> <<"c","_","2","3","7","d","1","c","f","1">>],
     [name |-> <<"O","N","T","W","E","R","P","E","N","_","R","E","G","E","L","G","E","V","I","N","G">>,
      value |-> <<"c","_","f","d","e","e","5","4","a","e">>],
     [name |-> <<"O","R","G","A","N","I","S","A","T","I","E","_","W","E","R","K","W","I","J","Z","E">>,
      value |-> <<"c","_","9","f","5","c","c","1","4","e">>],
     [name |-> <<"B","E","R","E","I","K","B","A","A","R","H","E","I","D">>,
      value |-> <<"c","_","e","8","b","f","4","b","9","e">>],
     [name |-> <<"I","N","G","E","K","O","M","E","N","_","S","T","U","K","K","E","N">>,
      value |-> <<"c","_","a","3","a","6","e","5","c","f">>],
     [name |-> <<"V","E","R","G","A","D","E","R","S","T","U","K","K","E","N","_","S","G">>,
      value |-> <<"c","_","7","e","b","b","6","b","a","0">>],
     [name |-> <<"V","E","R","G","A","D","E","R","S","T","U","K","K","E","N","_","D","E","C","E","N","T","R","A","A","L">>,
      value |-> <<"c","_","9","2","a","7","4","1","5","3">>],
     [name |-> <<"A","G","E","N","D","A","S","_","B","E","S","L","U","I","T","E","N","L","I","J","S","T","E","N">>,
      value |-> <<"c","_","5","5","4","0","d","8","0","6">>],
     [name |-> <<"A","D","V","I","E","Z","E","N">>,
      value |-> <<"c","_","5","b","a","2","3","c","0","1">>],
     [name |-> <<"C","O","N","V","E","N","A","N","T","E","N">>,
      value |-> <<"c","_","9","f","e","6","5","c","9","f">>],
     [name |-> <<"J","A","A","R","P","L","A","N","N","E","N","_","J","A","A","R","V","E","R","S","L","A","G","E","N">>,
      value |-> <<"c","_","9","b","4","a","b","1","6","7">>],
     [name |-> <<"S","U","B","S","I","D","I","E","S","_","A","N","D","E","R","S">>,
      value |-> <<"c","_","8","a","c","4","7","4","5","8">>],
     [name |-> <<"W","O","O","_","V","E","R","Z","O","E","K","E","N">>,
      value |-> <<"c","_","4","e","d","c","7","f","f","0">>],
     [name |-> <<"O","N","D","E","R","Z","O","E","K","S","R","A","P","P","O","R","T","E","N">>,
      value |-> <<"c","_","2","8","f","b","3","d","6","6">>],
     [name |-> <<"B","E","S","C","H","I","K","K","I","N","G","E","N">>,
      value |-> <<"c","_","0","b","6","b","d","8","8","1">>],
     [name |-> <<"K","L","A","C","H","T","O","O","R","D","E","L","E","N">>,
      value |-> <<"c","_","b","2","f","3","0","a","b","9">>] >>

\* INFORMATIECATEGORIE_LABELS[cat], in the order of the members
INFORMATIECATEGORIE_LABELS ==
  << "Wetten en algemeen verbindende voorschriften",
     "Overige besluiten van algemene strekking",
     "Ontwerpen van regelgeving met adviesaanvraag",
     "Organisatie en werkwijze",
     "Bereikbaarheidsgegevens",
     "Bij vertegenwoordigende organen ingekomen stukken",
     "Vergaderstukken Staten-Generaal",
     "Vergaderstukken decentrale overheden",
     "Agenda's en besluitenlijsten bestuurscolleges",
     "Adviezen",
     "Convenanten",
     "Jaarplannen en jaarverslagen",
     "Subsidieverplichtingen anders dan met beschikking",
     "Woo-verzoeken en -besluiten",
     "Onderzoeksrapporten",
     "Beschikkingen",
     "Klachtoordelen" >>

\* INFORMATIECATEGORIE_ARTIKELEN[cat], in the order of the members
INFORMATIECATEGORIE_ARTIKELEN ==
  << "3.3.1a",
     "3.3.1b",
     "3.3.1c",
     "3.3.1d",
     "3.3.1e",
     "3.3.2a",
     "3.3.2b",
     "3.3.2c",
     "3.3.2d",
     "3.3.2e",
     "3.3.2f",
     "3.3.2g",
     "3.3.2h",
     "3.3.2i",
     "3.3.2j",
     "3.3.2k",
     "3.3.2l" >>

SoortHandeling ==
  << [name |-> <<"O","N","T","V","A","N","G","S","T">>,
      value |-> <<"c","_","o","n","t","v","a","n","g","s","t">>],
     [name |-> <<"V","A","S","T","S","T","E","L","L","I","N","G">>,
      value |-> <<"c","_","v","a","s","t","s","t","e","l","l","i","n","g">>],
     [name |-> <<"O","N","D","E","R","T","E","K","E","N","I","N","G">>,
      value |-> <<"c","_","o","n","d","e","r","t","e","k","e","n","i","n","g">>],
     [name |-> <<"P","U","B","L","I","C","A","T","I","E">>,
      value |-> <<"c","_","p","u","b","l","i","c","a","t","i","e">>],
     [name |-> <<"I","N","W","E","R","K","I","N","G","T","R","E","D","I","N","G">>,
      value |-> <<"c","_","i","n","w","e","r","k","i","n","g","t","r","e","d","i","n","g">>],
     [name |-> <<"W","I","J","Z","I","G","I","N","G">>,
      value |-> <<"c","_","w","i","j","z","i","g","i","n","g">>],
     [name |-> <<"I","N","T","R","E","K","K","I","N","G">>,
      value |-> <<"c","_","i","n","t","r","e","k","k","i","n","g">>],
     [name |-> <<"R","E","G","I","S","T","R","A","T","I","E">>,
      value |-> <<"c","_","r","e","g","i","s","t","r","a","t","i","e">>] >>

DocumentSoort ==
  << [name |-> <<"B","R","I","E","F">>,
      value |-> <<"c","_","b","r","i","e","f">>],
     [name |-> <<"N","O","T","A">>,
      value |-> <<"c","_","n","o","t","a">>],
     [name |-> <<"R","A","P","P","O","R","T">>,
      value |-> <<"c","_","r","a","p","p","o","r","t">>],
     [name |-> <<"B","E","S","L","U","I","T">>,
      value |-> <<"c","_","b","e","s","l","u","i","t">>],
     [name |-> <<"A","D","V","I","E","S">>,
      value |-> <<"c","_","a","d","v","i","e","s">>],
     [name |-> <<"N","O","T","U","L","E","N">>,
      value |-> <<"c","_","n","o","t","u","l","e","n">>],
     [name |-> <<"A","G","E","N","D","A">>,
      value |-> <<"c","_","a","g","e","n","d","a">>],
     [name |-> <<"V","E","R","S","L","A","G">>,
      value |-> <<"c","_","v","e","r","s","l","a","g">>],
     [name |-> <<"C","O","N","V","E","N","A","N","T">>,
      value |-> <<"c","_","c","o","n","v","e","n","a","n","t">>],
     [name |-> <<"O","V","E","R","E","E","N","K","O","M","S","T">>,
      value |-> <<"c","_","o","v","e","r","e","e","n","k","o","m","s","t">>],
     [name |-> <<"B","E","L","E","I","D","S","R","E","G","E","L">>,
      value |-> <<"c","_","b","e","l","e","i","d","s","r","e","g","e","l">>],
     [name |-> <<"C","I","R","C","U","L","A","I","R","E">>,
      value |-> <<"c","_","c","i","r","c","u","l","a","i","r","e">>],
     [name |-> <<"B","E","S","C","H","I","K","K","I","N","G">>,
      value |-> <<"c","_","b","e","s","c","h","i","k","k","i","n","g">>],
     [name |-> <<"W","O","O","_","B","E","S","L","U","I","T">>,
      value |-> <<"c","_","w","o","o","_","b","e","s","l","u","i","t">>],
     [name |-> <<"O","N","D","E","R","Z","O","E","K","S","R","A","P","P","O","R","T">>,
      value |-> <<"c","_","o","n","d","e","r","z","o","e","k","s","r","a","p","p","o","r","t">>],
     [name |-> <<"J","A","A","R","V","E","R","S","L","A","G">>,
      value |-> <<"c","_","j","a","a","r","v","e","r","s","l","a","g">>],
     [name |-> <<"J","A","A","R","P","L","A","N">>,
      value |-> <<"c","_","j","a","a","r","p","l","a","n">>],
     [name |-> <<"K","L","A","C","H","T","O","O","R","D","E","E","L">>,
      value |-> <<"c","_","k","l","a","c","h","t","o","o","r","d","e","e","l">>],
     [name |-> <<"M","E","M","O","R","I","E","_","V","A","N","_","T","O","E","L","I","C","H","T","I","N","G">>,
      value |-> <<"c","_","m","e","m","o","r","i","e","_","v","a","n","_","t","o","e","l","i","c","h","t","i","n","g">>],
     [name |-> <<"A","M","E","N","D","E","M","E","N","T">>,
      value |-> <<"c","_","a","m","e","n","d","e","m","e","n","t">>],
     [name |-> <<"M","O","T","I","E">>,
      value |-> <<"c","_","m","o","t","i","e">>] >>

Taal ==
  << [name |-> <<"N","L">>,
      value |-> <<"c","_","n","l">>],
     [name |-> <<"E","N">>,
      value |-> <<"c","_","e","n">>],
     [name |-> <<"D","E">>,
      value |-> <<"c","_","d","e">>],
     [name |-> <<"F","R">>,
      value |-> <<"c","_","f","r">>],
     [name |-> <<"F","Y">>,
      value |-> <<"c","_","f","y">>],
     [name |-> <<"P","A","P">>,
      value |-> <<"c","_","p","a","p">>] >>

DocumentRelatie ==
  << [name |-> <<"V","E","R","V","A","N","G","T">>,
      value |-> <<"c","_","v","e","r","v","a","n","g","t">>],
     [name |-> <<"W","O","R","D","T","_","V","E","R","V","A","N","G","E","N","_","D","O","O","R">>,
      value |-> <<"c","_","w","o","r","d","t","_","v","e","r","v","a","n","g","e","n","_","d","o","o","r">>],
     [name |-> <<"W","I","J","Z","I","G","T">>,
      value |-> <<"c","_","w","i","j","z","i","g","t">>],
     [name |-> <<"W","O","R","D","T","_","G","E","W","I","J","Z","I","G","D","_","D","O","O","R">>,
      value |-> <<"c","_","w","o","r","d","t","_","g","e","w","i","j","z","i","g","d","_","d","o","o","r">>],
     [name |-> <<"I","N","T","R","E","K","T">>,
      value |-> <<"c","_","i","n","t","r","e","k","t">>],
     [name |-> <<"W","O","R","D","T","_","I","N","G","E","T","R","O","K","K","E","N","_","D","O","O","R">>,
      value |-> <<"c","_","w","o","r","d","t","_","i","n","g","e","t","r","o","k","k","e","n","_","d","o","o","r">>],
     [name |-> <<"H","E","E","F","T","_","B","I","J","L","A","G","E">>,
      value |-> <<"c","_","h","e","e","f","t","_","b","i","j","l","a","g","e">>],
     [name |-> <<"I","S","_","B","I","J","L","A","G","E","_","V","A","N">>,
      value |-> <<"c","_","i","s","_","b","i","j","l","a","g","e","_","v","a","n">>] >>

RedenVerwijderingVervanging ==
  << [name |-> <<"O","N","J","U","I","S","T","E","_","I","N","F","O","R","M","A","T","I","E">>,
      value |-> <<"c","_","o","n","j","u","i","s","t","e","_","i","n","f","o","r","m","a","t","i","e">>],
     [name |-> <<"P","R","I","V","A","C","Y","G","E","V","O","E","L","I","G","E","_","I","N","F","O","R","M","A","T","I","E">>,
      value |-> <<"c","_","p","r","i","v","a","c","y","g","e","v","o","e","l","i","g","e","_","i","n","f","o","r","m","a","t","i","e">>],
     [name |-> <<"T","E","C","H","N","I","S","C","H","E","_","F","O","U","T">>,
      value |-> <<"c","_","t","e","c","h","n","i","s","c","h","e","_","f","o","u","t">>],
     [name |-> <<"V","E","R","V","A","N","G","I","N","G","_","D","O","O","R","_","N","I","E","U","W","E","_","V","E","R","S","I","E">>,
      value |-> <<"c","_","v","e","r","v","a","n","g","i","n","g","_","d","o","o","r","_","n","i","e","u","w","e","_","v","e","r","s","i","e">>] >>

NoMember == [name |-> <<>>, value |-> <<>>]

\* Enum[name]: the member of that name, KeyError (NoMember) when there is none
ByName(enum, n) ==
  IF \E i \in 1..Len(enum) : enum[i].name = n
  THEN enum[CHOOSE i \in 1..Len(enum) : enum[i].name = n]
  ELSE NoMember

\* Enum(value): the member of that value, ValueError (NoMember) when none
ByValue(enum, v) ==
  IF \E i \in 1..Len(enum) : enum[i].value = v
  THEN enum[CHOOSE i \in 1..Len(enum) : enum[i].value = v]
  ELSE NoMember

\* f"https://identifier.overheid.nl/tooi/def/thes/kern/{self.value}"
TooiBase ==
  << "h","t","t","p","s",":","/","/","i","d","e","n","t","i","f","i",
     "e","r",".","o","v","e","r","h","e","i","d",".","n","l","/","t",
     "o","o","i","/","d","e","f","/","t","h","e","s","/","k","e","r",
     "n","/" >>

\* member.tooi_uri
TooiUri(member) == TooiBase \o member.value

\* the taxonomies that have a tooi_uri
Taxonomies ==
  [InformatieCategorie |-> InformatieCategorie,
   DocumentSoort |-> DocumentSoort,
   SoortHandeling |-> SoortHandeling,
   Taal |-> Taal,
   DocumentRelatie |-> DocumentRelatie,
   RedenVerwijderingVervanging |-> RedenVerwijderingVervanging]

OVERIGE_BESLUITEN_AS == InformatieCategorie[2]
ADVIEZEN == InformatieCategorie[10]
REGISTRATIE == SoortHandeling[8]
NL == Taal[1]
HEEFT_BIJLAGE == DocumentRelatie[7]
IS_BIJLAGE_VAN == DocumentRelatie[8]
VERVANGT == DocumentRelatie[1]

(***************************************************************************)
(* Results of an operation that may raise: exc is "none" or the exception  *)
(* class, field the place that raised, value what was returned.            *)
(***************************************************************************)
Ok(v) == [exc |-> "none", field |-> "-", value |-> v]
Raise(type, where) == [exc |-> type, field |-> where, value |-> <<>>]

(***************************************************************************)
(* Domain model (models/diwoo.py).                                         *)
(***************************************************************************)
\* f"https://identifier.overheid.nl/tooi/id/{org_type}/placeholder"
PlaceholderUri(org_type) == [kind |-> "placeholder", id |-> org_type]
GivenUri(id) == [kind |-> "given", id |-> id]
NoUri == [kind |-> "none", id |-> "-"]

\* Organisatie(resource=HttpUrl(...), label=...): a resource that is no URL
\* fails validation
Organisatie(resource, label) ==
  IF resource.kind = "given" /\ resource.id = "invalid"
  THEN Raise("ValidationError", "resource")
  ELSE Ok([resource |-> resource, label |-> label])

UnknownOrganisatie ==
  [resource |-> PlaceholderUri("organisatie"), label |-> "Onbekende organisatie"]

\* a text is a prefix of a source text: "llm" is what the LLM wrote
Text(source, n) == [kind |-> "str", text |-> source, len |-> n]
AbsentText == [kind |-> "absent", text |-> "-", len |-> 0]
DefaultTitle == Text("Onbekende titel", DefaultTitleLen)

\* Python truthiness of a value that is a string, None or missing
Truthy(t) == t.kind = "str" /\ t.len > 0

\* t[:n]
Slice(t, n) == [t EXCEPT !.len = Min(t.len, n)]

\* TitelCollectie(officiele_titel=...): str, min_length=1, max_length=2000
TitelCollectie(title) ==
  IF title.kind # "str" \/ title.len < 1 \/ title.len > MaxTitleLen
  THEN Raise("ValidationError", "officiele_titel")
  ELSE Ok(title)

\* ClassificatieCollectie(informatiecategorieen=...): Field(min_length=1)
ClassificatieCollectie(categories) ==
  IF Len(categories) < 1
  THEN Raise("ValidationError", "informatiecategorieen")
  ELSE Ok(categories)

DocumentHandeling(soort, at_time, org) ==
  [soort_handeling |-> soort, at_time |-> at_time, was_associated_with |-> org]

\* a date or datetime string as the LLM wrote it: the first ten characters,
\* the time part and the zone suffix
RawDate(date, time, zone) ==
  [kind |-> "str", date |-> date, time |-> time, zone |-> zone]
AbsentDate == [kind |-> "absent", date |-> "", time |-> "", zone |-> ""]
\* Python truthiness of a date string, None or a missing key
TruthyDate(raw) == raw.kind = "str" /\ <<raw.date, raw.time, raw.zone>> # <<"", "", "">>

\* a date or datetime object, or None
NoDate == [present |-> FALSE, date |-> "-", time |-> "-", tz |-> "-"]
Date(date) == [present |-> TRUE, date |-> date, time |-> "-", tz |-> "-"]
DateTime(date, time, tz) == [present |-> TRUE, date |-> date, time |-> time, tz |-> tz]

\* the first ten characters are a calendar date YYYY-MM-DD
IsIsoDate(date) == date \in {"2024-01-15", "2025-12-31"}

\* date.fromisoformat(raw): a date, or ValueError (NoDate) for anything but
\* a bare calendar date
DateFromIsoformat(raw) ==
  IF IsIsoDate(raw.date) /\ raw.time = "" /\ raw.zone = ""
  THEN Date(raw.date)
  ELSE NoDate

\* datetime.fromisoformat(raw): a date alone is midnight; a zone needs a time
DatetimeFromIsoformat(raw) ==
  IF IsIsoDate(raw.date) /\ raw.time \in {"", "T10:30:00"}
     /\ raw.zone \in {"", "+00:00"} /\ (raw.time = "" => raw.zone = "")
  THEN DateTime(raw.date,
                IF raw.time = "" THEN "T00:00:00" ELSE raw.time,
                IF raw.zone = "" THEN "naive" ELSE "utc")
  ELSE NoDate

\* Geldigheid(begindatum=..., einddatum=...), or None
NoGeldigheid == [present |-> FALSE, begindatum |-> NoDate, einddatum |-> NoDate]
Geldigheid(begindatum, einddatum) ==
  [present |-> TRUE, begindatum |-> begindatum, einddatum |-> einddatum]

\* a list of models, or None
NoList == [present |-> FALSE, items |-> <<>>]
ListOrNone(items) ==
  IF items = <<>> THEN NoList ELSE [present |-> TRUE, items |-> items]

\* DocumentRelatieItem(role=DocumentRelatieMeta(relatie=...),
\*                     relation=DocumentVerwijzing(resource=..., label=...))
DocumentRelatieItem(relatie, resource, label) ==
  [role |-> relatie, resource |-> resource, label |-> label]

\* TaalMeta(taal=...), or None
NoLanguage == [present |-> FALSE, taal |-> NoMember]
TaalMeta(taal) == [present |-> TRUE, taal |-> taal]

\* the optional fields of a record the transformers fill in
Optional(documentsoorten, creatiedatum, geldigheid, documentrelaties, language) ==
  [documentsoorten |-> documentsoorten, creatiedatum |-> creatiedatum,
   geldigheid |-> geldigheid, documentrelaties |-> documentrelaties,
   language |-> language]

NoRecord ==
  [publisher |-> [resource |-> NoUri, label |-> "-"],
   officiele_titel |-> AbsentText,
   informatiecategorieen |-> <<>>,
   documenthandelingen |-> <<>>,
   documentsoorten |-> NoList,
   creatiedatum |-> NoDate,
   geldigheid |-> NoGeldigheid,
   documentrelaties |-> NoList,
   language |-> NoLanguage]

\* DiWooMetadata(...): documenthandelingen has Field(min_length=1); the
\* nested models were validated when they were built
DiWooMetadata(publisher, title, categories, handelingen, optional) ==
  IF Len(handelingen) < 1
  THEN Raise("ValidationError", "documenthandelingen")
  ELSE Ok([publisher |-> publisher,
           officiele_titel |-> title,
           informatiecategorieen |-> categories,
           documenthandelingen |-> handelingen,
           documentsoorten |-> optional.documentsoorten,
           creatiedatum |-> optional.creatiedatum,
           geldigheid |-> optional.geldigheid,
           documentrelaties |-> optional.documentrelaties,
           language |-> optional.language])

(***************************************************************************)
(* JSON transformer (MetadataGenerator._transform_to_diwoo).               *)
(*                                                                         *)
(* A parsed LLM output is a record: root says whether json.loads gave a    *)
(* dict; a nested object is "absent", "dict" or "other" (a key whose value *)
(* is null, a string or a list).                                           *)
(***************************************************************************)
NoHint == [present |-> FALSE, name |-> "-", tooi_uri |-> NoUri]

\* _extract_organisation(llm_data, hint)
ExtractOrganisation_hintFirst(llm_data, hint) ==
  IF hint.present
  THEN Organisatie(
         IF hint.tooi_uri.kind = "none" THEN PlaceholderUri("organisatie")
         ELSE hint.tooi_uri,
         hint.name)
  ELSE IF llm_data.kind = "dict" /\ llm_data.name # ""
       THEN Organisatie(
              PlaceholderUri(IF llm_data.type = "absent" THEN "organisatie"
                             ELSE llm_data.type),
              llm_data.name)
       ELSE Ok(UnknownOrganisatie)

ExtractOrganisation(llm_data, hint) ==
  IF llm_data.kind = "dict" /\ llm_data.name # ""
  THEN Organisatie(
         PlaceholderUri(IF llm_data.type = "absent" THEN "organisatie"
                        ELSE llm_data.type),
         llm_data.name)
  ELSE IF hint.present
       THEN Organisatie(
              IF hint.tooi_uri.kind = "none" THEN PlaceholderUri("organisatie")
              ELSE hint.tooi_uri,
              hint.name)
       ELSE Ok(UnknownOrganisatie)

\* TitelCollectie(officiele_titel=officiele_titel[:2000], ...)
TitleJson(d) ==
  LET \* the official title the transformer reads (lines 227-236)
      ResolveTitleJson(llm_output) ==
        IF llm_output.titelcollectie \in {"absent", "dict"}
        THEN LET camel == IF llm_output.titelcollectie = "dict" THEN llm_output.tc_officieleTitel
                          ELSE AbsentText
                 snake == IF llm_output.titelcollectie = "dict" THEN llm_output.tc_officiele_titel
                          ELSE AbsentText
             IN  IF Truthy(camel) THEN camel
                 ELSE IF snake.kind = "absent" THEN DefaultTitle ELSE snake
        ELSE IF llm_output.officiele_titel.kind = "absent" THEN DefaultTitle
             ELSE llm_output.officiele_titel
  IN  LET raw == ResolveTitleJson(d)
      IN  IF raw.kind # "str"
          THEN Raise("TypeError", "officiele_titel")
          ELSE TitelCollectie(Slice(raw, MaxTitleLen))

AbsentList == [kind |-> "absent", items |-> <<>>]

\* raw_categories (lines 245-254)
RawCategories(d) ==
  IF d.classificatiecollectie \in {"absent", "dict"}
  THEN IF d.classificatiecollectie = "dict" THEN d.cc_informatiecategorieen
       ELSE AbsentList
  ELSE d.informatiecategorieen

\* the loop of lines 257-263 over the remaining items
RECURSIVE CategoryLoopJson_prepend(_, _)
CategoryLoopJson_prepend(items, acc) ==
  IF items = <<>>
  THEN Ok(acc)
  ELSE LET cat_data == Head(items)
       IN  IF cat_data.kind \in {"nondict", "null"}
           THEN Raise("AttributeError", "categorie")
           ELSE LET cat_name == NormaliseName(
                                  IF cat_data.kind = "missing" THEN <<>>
                                  ELSE cat_data.name)
                    cat_enum == ByName(InformatieCategorie, cat_name)
                IN  CategoryLoopJson_prepend(
                      Tail(items),
                      IF cat_enum = NoMember THEN acc
                      ELSE <<cat_enum>> \o acc)

RECURSIVE CategoryLoopJson(_, _)
CategoryLoopJson(items, acc) ==
  IF items = <<>>
  THEN Ok(acc)
  ELSE LET cat_data == Head(items)
       IN  IF cat_data.kind \in {"nondict", "null"}
           THEN Raise("AttributeError", "categorie")
           ELSE LET cat_name == NormaliseName(
                                  IF cat_data.kind = "missing" THEN <<>>
                                  ELSE cat_data.name)
                    cat_enum == ByName(InformatieCategorie, cat_name)
                IN  CategoryLoopJson(
                      Tail(items),
                      IF cat_enum = NoMember THEN acc
                      ELSE Append(acc, cat_enum))

\* "Ensure at least one category" (lines 266-267)
EnsureCategory_missing(categories) == categories

EnsureCategory(categories) ==
  IF categories = <<>> THEN <<OVERIGE_BESLUITEN_AS>> ELSE categories

\* informatiecategorieen as passed to ClassificatieCollectie
CategoriesJson(d) ==
  LET raw == RawCategories(d)
  IN  IF raw.kind = "null"
      THEN Raise("TypeError", "informatiecategorieen")
      ELSE LET looped == CategoryLoopJson(raw.items, <<>>)
           IN  IF looped.exc # "none" THEN looped
               ELSE ClassificatieCollectie(EnsureCategory(looped.value))

\* documenthandelingen (lines 288-294)
HandelingenJson(publisher) ==
  <<DocumentHandeling(REGISTRATIE, "now", publisher)>>

\* raw_soorten (lines 248, 253)
RawSoorten(d) ==
  IF d.classificatiecollectie \in {"absent", "dict"}
  THEN IF d.classificatiecollectie = "dict" THEN d.cc_documentsoorten
       ELSE AbsentList
  ELSE d.documentsoorten

\* the loop of lines 273-278 over the remaining entries
RECURSIVE SoortLoopJson(_, _)
SoortLoopJson(items, acc) ==
  IF items = <<>>
  THEN Ok(acc)
  ELSE LET soort_name == Head(items)
       IN  IF soort_name.kind # "str"
           THEN Raise("AttributeError", "documentsoorten")
           ELSE LET soort_enum == ByName(DocumentSoort,
                                         NormaliseName(soort_name.name))
                IN  SoortLoopJson(Tail(items),
                                  IF soort_enum = NoMember THEN acc
                                  ELSE Append(acc, soort_enum))

\* creatiedatum (lines 297-303)
CreatiedatumJson_raise(d) ==
  IF TruthyDate(d.creatiedatum)
  THEN IF DateFromIsoformat(d.creatiedatum).present
       THEN Ok(DateFromIsoformat(d.creatiedatum))
       ELSE Raise("ValueError", "creatiedatum")
  ELSE Ok(NoDate)

CreatiedatumJson(d) ==
  IF TruthyDate(d.creatiedatum)
  THEN Ok(DateFromIsoformat(d.creatiedatum))
  ELSE Ok(NoDate)

\* the loop of lines 444-462 over the remaining entries
RECURSIVE RelatieLoopJson(_, _)
RelatieLoopJson(items, acc) ==
  LET \* type_mapping.get(rel_type, DocumentRelatie.HEEFT_BIJLAGE) (lines 433-441, 455)
      TypeMapping(rel_type) ==
        LET WIJZIGT == DocumentRelatie[3]
        IN  CASE rel_type = <<"B","I","J","L","A","G","E">> -> HEEFT_BIJLAGE
              [] rel_type = HEEFT_BIJLAGE.name -> HEEFT_BIJLAGE
              [] rel_type = IS_BIJLAGE_VAN.name -> IS_BIJLAGE_VAN
              [] rel_type = <<"V","E","R","W","I","J","Z","I","N","G">> -> HEEFT_BIJLAGE
              [] rel_type = <<"R","E","A","C","T","I","E","_","O","P">> -> WIJZIGT
              [] rel_type = VERVANGT.name -> VERVANGT
              [] rel_type = WIJZIGT.name -> WIJZIGT
              [] OTHER -> HEEFT_BIJLAGE
  IN  IF items = <<>>
      THEN Ok(acc)
      ELSE LET rel_data == Head(items)
           IN  IF rel_data.kind # "dict"
               THEN RelatieLoopJson(Tail(items), acc)
               ELSE IF rel_data.type.kind = "null"
               THEN Raise("AttributeError", "type")
               ELSE IF rel_data.label = ""
               THEN RelatieLoopJson(Tail(items), acc)
               ELSE RelatieLoopJson(
                      Tail(items),
                      Append(acc,
                             DocumentRelatieItem(
                               TypeMapping(Upper(IF rel_data.type.kind = "absent"
                                                 THEN <<>> ELSE rel_data.type.chars)),
                               "None", rel_data.label)))

\* _transform_to_diwoo(llm_output, publisher_hint)
TransformToDiwoo(d, hint) ==
  LET \* documentsoorten (lines 270-278, 283)
      SoortenJson(llm_output) ==
        LET raw_soorten == RawSoorten(llm_output)
        IN  IF raw_soorten.kind # "list" \/ raw_soorten.items = <<>>
            THEN Ok(NoList)
            ELSE LET soorten == SoortLoopJson(raw_soorten.items, <<>>)
                 IN  IF soorten.exc # "none" THEN soorten
                     ELSE Ok(ListOrNone(soorten.value))

      \* _extract_geldigheid(llm_data)
      ExtractGeldigheid(llm_data) ==
        IF llm_data.kind # "dict"
        THEN NoGeldigheid
        ELSE LET begindatum == IF TruthyDate(llm_data.begindatum)
                               THEN DatetimeFromIsoformat(llm_data.begindatum)
                               ELSE NoDate
                 einddatum == IF TruthyDate(llm_data.einddatum)
                              THEN DatetimeFromIsoformat(llm_data.einddatum)
                              ELSE NoDate
             IN  IF begindatum.present \/ einddatum.present
                 THEN Geldigheid(begindatum, einddatum)
                 ELSE NoGeldigheid

      \* _extract_documentrelaties(llm_data)
      ExtractDocumentrelaties(llm_data) ==
        IF llm_data.kind # "list" \/ llm_data.items = <<>>
        THEN Ok(NoList)
        ELSE LET relations == RelatieLoopJson(llm_data.items, <<>>)
             IN  IF relations.exc # "none" THEN relations
                 ELSE Ok(ListOrNone(relations.value))

      \* language (lines 312-317)
      LanguageJson(llm_output) ==
        IF llm_output.taal.kind = "null"
        THEN Raise("AttributeError", "taal")
        ELSE LET taal_str == Upper(IF llm_output.taal.kind = "absent" THEN NL.name
                                   ELSE llm_output.taal.chars)
                 taal_enum == ByName(Taal, taal_str)
             IN  Ok(TaalMeta(IF taal_enum = NoMember THEN NL ELSE taal_enum))
  IN  IF d.root # "dict"
      THEN Raise("AttributeError", "llm_output")
      ELSE LET publisher == ExtractOrganisation(d.publisher, hint)
               title == TitleJson(d)
               categories == CategoriesJson(d)
               documentsoorten == SoortenJson(d)
               creatiedatum == CreatiedatumJson(d)
               geldigheid == ExtractGeldigheid(d.geldigheid)
               documentrelaties == ExtractDocumentrelaties(d.documentrelaties)
               language == LanguageJson(d)
           IN  IF publisher.exc # "none" THEN publisher
               ELSE IF title.exc # "none" THEN title
               ELSE IF categories.exc # "none" THEN categories
               ELSE IF documentsoorten.exc # "none" THEN documentsoorten
               ELSE IF creatiedatum.exc # "none" THEN creatiedatum
               ELSE IF documentrelaties.exc # "none" THEN documentrelaties
               ELSE IF language.exc # "none" THEN language
               ELSE DiWooMetadata(publisher.value, title.value, categories.value,
                                  HandelingenJson(publisher.value),
                                  Optional(documentsoorten.value, creatiedatum.value,
                                           geldigheid, documentrelaties.value,
                                           language.value))

(***************************************************************************)
(* XML transformer (services/xml_parser.py).                               *)
(*                                                                         *)
(* An LLM answer in XML is a record: syntax says whether the cleaned text  *)
(* parses, schema_valid whether the tree conforms to the XSD, has_diwoo    *)
(* whether the root holds a diwoo:DiWoo element; an element is a record    *)
(* with present, and a text is the element's text after strip().           *)
(***************************************************************************)
AbsentOrg == [present |-> FALSE, resource |-> NoUri, label |-> ""]

\* _parse_organisation(elem)
ParseOrganisation(elem) ==
  IF ~elem.present
  THEN Ok(UnknownOrganisatie)
  ELSE LET label == IF elem.label = "" THEN "Onbekende organisatie"
                    ELSE elem.label
       IN  IF elem.resource.kind # "none"
           THEN Organisatie(elem.resource, label)
           ELSE Organisatie(PlaceholderUri("organisatie"), label)

\* _parse_titelcollectie(elem)
ParseTitelcollectie(elem) ==
  IF ~elem.present
  THEN TitelCollectie(DefaultTitle)
  ELSE LET officiele_titel == IF Truthy(elem.officieleTitel)
                              THEN elem.officieleTitel ELSE DefaultTitle
       IN  TitelCollectie(Slice(officiele_titel, MaxTitleLen))

\* the loop of lines 314-322 over the informatiecategorie elements
RECURSIVE CategoryLoopXml(_, _)
CategoryLoopXml(elems, acc) ==
  IF elems = <<>>
  THEN acc
  ELSE LET code == ExtractCategoryCode(Head(elems))
           cat_enum == IF code.kind = "none" THEN NoMember
                       ELSE ByValue(InformatieCategorie, code.chars)
       IN  CategoryLoopXml(Tail(elems),
                           IF cat_enum = NoMember THEN acc
                           ELSE Append(acc, cat_enum))

\* _parse_classificatiecollectie(elem)
ParseClassificatiecollectie(elem) ==
  IF ~elem.present
  THEN ClassificatieCollectie(<<OVERIGE_BESLUITEN_AS>>)
  ELSE LET found == IF elem.has_list
                    THEN CategoryLoopXml(elem.informatiecategorieen, <<>>)
                    ELSE <<>>
       IN  ClassificatieCollectie(
             IF found = <<>> THEN <<OVERIGE_BESLUITEN_AS>> ELSE found)

\* the loop of lines 393-416 over the documenthandeling elements
RECURSIVE HandelingLoopXml(_, _)
HandelingLoopXml(elems, acc) ==
  LET \* _parse_datetime(value) or datetime.now()
      AtTime(at_time) == IF at_time = "valid" THEN "parsed" ELSE "now"

      \* the soortHandeling of one documenthandeling (lines 399-405)
      ParseSoortHandeling(soort) ==
        LET code == IF soort.present THEN ExtractCategoryCode(soort.resource)
                    ELSE NoString
            found == IF code.kind = "none" THEN NoMember
                     ELSE ByValue(SoortHandeling, code.chars)
        IN  IF found = NoMember THEN REGISTRATIE ELSE found
  IN  IF elems = <<>>
      THEN Ok(acc)
      ELSE LET h == Head(elems)
               associated_with == ParseOrganisation(h.wasAssociatedWith)
           IN  IF associated_with.exc # "none" THEN associated_with
               ELSE HandelingLoopXml(
                      Tail(elems),
                      Append(acc, DocumentHandeling(ParseSoortHandeling(h.soortHandeling),
                                                    AtTime(h.atTime),
                                                    associated_with.value)))

\* _parse_documenthandelingen(elem, publisher)
ParseDocumenthandelingen(elem, publisher) ==
  LET \* "Ensure at least one handeling" (lines 419-426)
      EnsureHandeling(handelingen, org) ==
        IF handelingen = <<>>
        THEN <<DocumentHandeling(REGISTRATIE, "now", org)>>
        ELSE handelingen
  IN  LET looped == IF elem.present THEN HandelingLoopXml(elem.items, <<>>)
                    ELSE Ok(<<>>)
      IN  IF looped.exc # "none" THEN looped
          ELSE Ok(EnsureHandeling(looped.value, publisher))

\* the loop of lines 332-340 over the documentsoort elements
RECURSIVE SoortLoopXml(_, _)
SoortLoopXml(elems, acc) ==
  IF elems = <<>>
  THEN acc
  ELSE LET code == ExtractCategoryCode(Head(elems))
           soort_enum == IF code.kind = "none" THEN NoMember
                         ELSE ByValue(DocumentSoort, code.chars)
       IN  SoortLoopXml(Tail(elems),
                        IF soort_enum = NoMember THEN acc
                        ELSE Append(acc, soort_enum))

\* _parse_date(value)
ParseDate(value) ==
  LET \* value[:10]
      Slice10(raw) == [raw EXCEPT !.time = "", !.zone = ""]
  IN  IF ~TruthyDate(value) THEN NoDate ELSE DateFromIsoformat(Slice10(value))

\* the loop of lines 437-461 over the documentrelatie elements
RECURSIVE RelatieLoopXml(_, _)
RelatieLoopXml(elems, acc) ==
  IF elems = <<>>
  THEN acc
  ELSE LET rel_elem == Head(elems)
       IN  IF ~rel_elem.has_role \/ ~rel_elem.has_relation
           THEN RelatieLoopXml(Tail(elems), acc)
           ELSE LET code == ExtractCategoryCode(rel_elem.role)
                    found == IF code.kind = "none" THEN NoMember
                             ELSE ByValue(DocumentRelatie, code.chars)
                    relatie_enum == IF found = NoMember THEN HEEFT_BIJLAGE
                                    ELSE found
                    label == IF rel_elem.label = "" THEN "Onbekend document"
                             ELSE rel_elem.label
                IN  RelatieLoopXml(
                      Tail(elems),
                      Append(acc, DocumentRelatieItem(relatie_enum,
                                                      rel_elem.resource, label)))

\* parse_xml_to_diwoo(xml_string, validate); schema_loaded says whether
\* load_xsd_schema() found and loaded the XSD
ParseXmlToDiwoo_validateLate(x, validate, schema_loaded) ==
  IF ~x.syntax
  THEN Raise("XMLParseError", "syntax")
  ELSE IF ~x.has_diwoo
  THEN Raise("XMLParseError", "DiWoo")
  ELSE LET publisher == ParseOrganisation(x.publisher)
       IN  IF publisher.exc # "none" THEN publisher
           ELSE IF validate /\ schema_loaded /\ ~x.schema_valid
           THEN Raise("XMLValidationError", "schema")
           ELSE Ok(NoRecord)

ParseXmlToDiwoo(x, validate, schema_loaded) ==
  LET \* documentsoorten of _parse_classificatiecollectie (lines 304-305, 327-340, 350)
      ParseDocumentsoorten(classificatie, soorten) ==
        IF ~classificatie.present \/ ~soorten.present
        THEN NoList
        ELSE ListOrNone(SoortLoopXml(soorten.items, <<>>))

      \* _parse_geldigheid(elem)
      ParseGeldigheid(elem) ==
        LET \* _parse_datetime(value)
            ParseDatetime(value) ==
              LET \* value.replace("Z", "+00:00")
                  ReplaceZ(raw) == [raw EXCEPT !.zone = IF @ = "Z" THEN "+00:00" ELSE @]
              IN  IF ~TruthyDate(value) THEN NoDate ELSE DatetimeFromIsoformat(ReplaceZ(value))
        IN  IF ~elem.present
            THEN NoGeldigheid
            ELSE LET begindatum == ParseDatetime(elem.begindatum)
                     einddatum == ParseDatetime(elem.einddatum)
                 IN  IF begindatum.present \/ einddatum.present
                     THEN Geldigheid(begindatum, einddatum)
                     ELSE NoGeldigheid

      \* _parse_language(elem)
      ParseLanguage(elem) ==
        IF ~elem.present
        THEN TaalMeta(NL)
        ELSE LET code == ExtractCategoryCode(elem.resource)
                 found == IF code.kind = "none" THEN NoMember
                          ELSE ByValue(Taal, code.chars)
             IN  TaalMeta(IF found = NoMember THEN NL ELSE found)

      \* _parse_documentrelaties(elem)
      ParseDocumentrelaties(elem) ==
        IF ~elem.present
        THEN NoList
        ELSE ListOrNone(RelatieLoopXml(elem.items, <<>>))
  IN  IF ~x.syntax
      THEN Raise("XMLParseError", "syntax")
      ELSE IF validate /\ schema_loaded /\ ~x.schema_valid
      THEN Raise("XMLValidationError", "schema")
      ELSE IF ~x.has_diwoo
      THEN Raise("XMLParseError", "DiWoo")
      ELSE LET publisher == ParseOrganisation(x.publisher)
               title == ParseTitelcollectie(x.titelcollectie)
               categories == ParseClassificatiecollectie(x.classificatiecollectie)
           IN  IF publisher.exc # "none" THEN publisher
               ELSE IF title.exc # "none" THEN title
               ELSE IF categories.exc # "none" THEN categories
               ELSE LET handelingen ==
                          ParseDocumenthandelingen(x.documenthandelingen,
                                                   publisher.value)
                    IN  IF handelingen.exc # "none" THEN handelingen
                        ELSE DiWooMetadata(
                               publisher.value, title.value, categories.value,
                               handelingen.value,
                               Optional(ParseDocumentsoorten(x.classificatiecollectie,
                                                             x.documentsoorten),
                                        ParseDate(x.creatiedatum),
                                        ParseGeldigheid(x.geldigheid),
                                        ParseDocumentrelaties(x.documentrelaties),
                                        ParseLanguage(x.language)))

(***************************************************************************)
(* Serialisation and validation of a record (DiWooMetadata.to_dict and     *)
(* DiWooMetadata.model_validate).                                          *)
(*                                                                         *)
(* A dictionary is a function from its keys; a key whose value is None is  *)
(* left out. Enum members are written as their values, URLs, dates and     *)
(* datetimes as strings, fields under their aliases.                       *)
(***************************************************************************)
EmptyDict == [k \in {} |-> k]

\* the JSON form of a datetime: UTC is written with the suffix Z
DatetimeToIso_dropZone(d) == RawDate(d.date, d.time, "")

DatetimeToIso(d) == RawDate(d.date, d.time, IF d.tz = "utc" THEN "Z" ELSE "")

\* to_dict(): model_dump(mode="json", by_alias=True, exclude_none=True)
ToDict(m) ==
  LET \* the entry key: value, left out when the value is None
      Entry(key, present, value) == IF present THEN key :> value ELSE EmptyDict

      \* str(HttpUrl)
      UrlToStr(url) == [kind |-> "str", url |-> url]

      \* date.isoformat()
      DateToIso(d) == RawDate(d.date, "", "")

      OrganisatieToDict(o) ==
        [resource |-> UrlToStr(o.resource), label |-> o.label]

      HandelingToDict(h) ==
        [soortHandeling |-> [handeling |-> h.soort_handeling.value],
         atTime |-> [kind |-> "str", iso |-> h.at_time],
         wasAssociatedWith |-> OrganisatieToDict(h.was_associated_with)]

      RelatieToDict(r) ==
        [role |-> [relatie |-> r.role.value],
         relation |-> ("label" :> r.label)
                        @@ Entry("resource", r.resource # "None", r.resource)]

      GeldigheidToDict(g) ==
        Entry("begindatum", g.begindatum.present, DatetimeToIso(g.begindatum))
          @@ Entry("einddatum", g.einddatum.present, DatetimeToIso(g.einddatum))

      ClassificatieToDict(c) ==
        ("informatiecategorieen" :>
           [i \in 1..Len(c.informatiecategorieen) |->
              [categorie |-> c.informatiecategorieen[i].value]])
          @@ Entry("documentsoorten", c.documentsoorten.present,
                   [i \in 1..Len(c.documentsoorten.items) |->
                      [soort |-> c.documentsoorten.items[i].value]])
  IN  ("publisher" :> OrganisatieToDict(m.publisher))
        @@ ("titelcollectie" :> [officieleTitel |-> m.officiele_titel])
        @@ ("classificatiecollectie" :> ClassificatieToDict(m))
        @@ ("documenthandelingen" :>
              [i \in 1..Len(m.documenthandelingen) |->
                 HandelingToDict(m.documenthandelingen[i])])
        @@ Entry("creatiedatum", m.creatiedatum.present, DateToIso(m.creatiedatum))
        @@ Entry("geldigheid", m.geldigheid.present, GeldigheidToDict(m.geldigheid))
        @@ Entry("language", m.language.present, [taal |-> m.language.taal.value])
        @@ Entry("documentrelaties", m.documentrelaties.present,
                 [i \in 1..Len(m.documentrelaties.items) |->
                    RelatieToDict(m.documentrelaties.items[i])])

Has(d, key) == key \in DOMAIN d

\* DiWooMetadata.model_validate(d): the required keys, the nested models,
\* then the optional keys
ModelValidate(d) ==
  LET \* a date field: a calendar date
      ValidateDate(raw) ==
        IF raw.kind = "str" /\ IsIsoDate(raw.date) /\ raw.time = "" /\ raw.zone = ""
        THEN Date(raw.date) ELSE NoDate

      \* a datetime field: a date alone is midnight, Z and +00:00 are UTC
      ValidateDatetime(raw) ==
        IF raw.kind = "str" /\ IsIsoDate(raw.date)
           /\ raw.zone \in {"", "Z", "+00:00"} /\ (raw.time = "" => raw.zone = "")
        THEN DateTime(raw.date,
                      IF raw.time = "" THEN "T00:00:00" ELSE raw.time,
                      IF raw.zone = "" THEN "naive" ELSE "utc")
        ELSE NoDate

      \* Organisatie.model_validate(d)
      ValidateOrganisatie(data) ==
        IF ~Has(data, "resource") \/ ~Has(data, "label")
        THEN Raise("ValidationError", "publisher")
        ELSE Organisatie(data.resource.url, data.label)

      \* the enum members of a list of models with one enum field, and whether
      \* every entry names a member
      ValidateMembers(list, field, enum) ==
        [i \in 1..Len(list) |->
           IF Has(list[i], field) THEN ByValue(enum, list[i][field]) ELSE NoMember]

      AllMembers(members) == \A i \in 1..Len(members) : members[i] # NoMember

      \* DocumentHandeling.model_validate(d): soortHandeling and atTime are
      \* required and read under their alias or their name
      ValidateHandeling(data) ==
        LET soort == IF Has(data, "soortHandeling") THEN data.soortHandeling
                     ELSE IF Has(data, "soort_handeling") THEN data.soort_handeling
                     ELSE EmptyDict
            at_time == IF Has(data, "atTime") THEN data.atTime
                       ELSE IF Has(data, "at_time") THEN data.at_time
                       ELSE [kind |-> "absent", iso |-> "-"]
            org == IF Has(data, "wasAssociatedWith")
                   THEN ValidateOrganisatie(data.wasAssociatedWith)
                   ELSE Raise("missing", "wasAssociatedWith")
            handeling == IF Has(soort, "handeling")
                         THEN ByValue(SoortHandeling, soort.handeling) ELSE NoMember
        IN  IF handeling = NoMember \/ at_time.kind # "str"
               \/ org.exc = "ValidationError"
            THEN Raise("ValidationError", "documenthandelingen")
            ELSE IF org.exc = "missing"
            THEN Ok([soort_handeling |-> handeling, at_time |-> at_time.iso])
            ELSE Ok(DocumentHandeling(handeling, at_time.iso, org.value))

      \* DocumentRelatieItem.model_validate(d)
      ValidateRelatie(data) ==
        IF ~Has(data, "role") \/ ~Has(data, "relation") \/ ~Has(data.relation, "label")
           \/ ~Has(data.role, "relatie")
           \/ ByValue(DocumentRelatie, data.role.relatie) = NoMember
        THEN Raise("ValidationError", "documentrelaties")
        ELSE Ok(DocumentRelatieItem(ByValue(DocumentRelatie, data.role.relatie),
                                    IF Has(data.relation, "resource")
                                    THEN data.relation.resource ELSE "None",
                                    data.relation.label))

      \* Geldigheid.model_validate(d)
      ValidateGeldigheid(data) ==
        Geldigheid(IF Has(data, "begindatum") THEN ValidateDatetime(data.begindatum) ELSE NoDate,
                   IF Has(data, "einddatum") THEN ValidateDatetime(data.einddatum) ELSE NoDate)

      \* the optional fields of DiWooMetadata.model_validate(d)
      ValidateOptional(data) ==
        LET cc == data.classificatiecollectie
            soorten == IF Has(cc, "documentsoorten")
                       THEN ValidateMembers(cc.documentsoorten, "soort", DocumentSoort)
                       ELSE <<>>
            relaties == IF Has(data, "documentrelaties")
                        THEN [i \in 1..Len(data.documentrelaties) |->
                                ValidateRelatie(data.documentrelaties[i])]
                        ELSE <<>>
            taal == IF Has(data, "language")
                    THEN IF Has(data.language, "taal") THEN ByValue(Taal, data.language.taal)
                         ELSE NL
                    ELSE NoMember
        IN  IF ~AllMembers(soorten)
            THEN Raise("ValidationError", "documentsoorten")
            ELSE IF \E i \in 1..Len(relaties) : relaties[i].exc # "none"
            THEN Raise("ValidationError", "documentrelaties")
            ELSE IF Has(data, "language") /\ taal = NoMember
            THEN Raise("ValidationError", "language")
            ELSE IF Has(data, "creatiedatum") /\ ~ValidateDate(data.creatiedatum).present
            THEN Raise("ValidationError", "creatiedatum")
            ELSE Ok(Optional(
                   IF Has(cc, "documentsoorten")
                   THEN [present |-> TRUE, items |-> soorten] ELSE NoList,
                   IF Has(data, "creatiedatum") THEN ValidateDate(data.creatiedatum)
                   ELSE NoDate,
                   IF Has(data, "geldigheid") THEN ValidateGeldigheid(data.geldigheid)
                   ELSE NoGeldigheid,
                   IF Has(data, "documentrelaties")
                   THEN [present |-> TRUE,
                         items |-> [i \in 1..Len(relaties) |-> relaties[i].value]]
                   ELSE NoList,
                   IF Has(data, "language") THEN TaalMeta(taal) ELSE NoLanguage))
  IN  IF \E k \in {"publisher", "titelcollectie", "classificatiecollectie",
                    "documenthandelingen"} : ~Has(d, k)
      THEN Raise("ValidationError", "required")
      ELSE LET publisher == ValidateOrganisatie(d.publisher)
               tc == d.titelcollectie
               title == IF Has(tc, "officieleTitel") THEN TitelCollectie(tc.officieleTitel)
                        ELSE IF Has(tc, "officiele_titel")
                        THEN TitelCollectie(tc.officiele_titel)
                        ELSE Raise("ValidationError", "officiele_titel")
               cats == IF Has(d.classificatiecollectie, "informatiecategorieen")
                       THEN ValidateMembers(d.classificatiecollectie.informatiecategorieen,
                                            "categorie", InformatieCategorie)
                       ELSE <<>>
               categories == IF AllMembers(cats) THEN ClassificatieCollectie(cats)
                             ELSE Raise("ValidationError", "informatiecategorieen")
               hs == [i \in 1..Len(d.documenthandelingen) |->
                        ValidateHandeling(d.documenthandelingen[i])]
               optional == ValidateOptional(d)
           IN  IF publisher.exc # "none" THEN publisher
               ELSE IF title.exc # "none" THEN title
               ELSE IF categories.exc # "none" THEN categories
               ELSE IF \E i \in 1..Len(hs) : hs[i].exc # "none"
               THEN Raise("ValidationError", "documenthandelingen")
               ELSE IF optional.exc # "none" THEN optional
               ELSE DiWooMetadata(publisher.value, title.value, categories.value,
                                  [i \in 1..Len(hs) |-> hs[i].value],
                                  optional.value)

(***************************************************************************)
(* LLM outputs the transformers are applied to.                            *)
(***************************************************************************)
\* all sequences over S of length 0..n
RECURSIVE SeqsUpTo(_, _)
SeqsUpTo(S, n) ==
  IF n = 0 THEN {<<>>}
  ELSE LET shorter == SeqsUpTo(S, n - 1)
       IN  shorter \cup { Append(s, x) : s \in shorter, x \in S }

NoConfidence ==
  [kind |-> "absent", overall |-> [kind |-> "absent", value |-> 0],
   titel |-> [kind |-> "absent", value |-> 0]]

\* the optional keys of an output: taal, documentsoorten, creatiedatum,
\* geldigheid, documentrelaties
AbsentTaal == [kind |-> "absent", chars |-> <<>>]
NoJsonGeldigheid ==
  [kind |-> "absent", begindatum |-> AbsentDate, einddatum |-> AbsentDate]
JsonDoc(root, publisher, title, classification, confidence) ==
  [root |-> root,
   publisher |-> publisher,
   titelcollectie |-> title.titelcollectie,
   tc_officieleTitel |-> title.tc_officieleTitel,
   tc_officiele_titel |-> title.tc_officiele_titel,
   officiele_titel |-> title.officiele_titel,
   classificatiecollectie |-> classification.classificatiecollectie,
   cc_informatiecategorieen |-> classification.cc_informatiecategorieen,
   informatiecategorieen |-> classification.informatiecategorieen,
   confidence_scores |-> confidence,
   cc_documentsoorten |-> AbsentList,
   documentsoorten |-> AbsentList,
   creatiedatum |-> AbsentDate,
   geldigheid |-> NoJsonGeldigheid,
   documentrelaties |-> AbsentList,
   taal |-> AbsentTaal]

\* an output with one part well formed: the title, the publisher
GoodJsonTitle ==
  [titelcollectie |-> "dict", tc_officieleTitel |-> Text("llm", 4),
   tc_officiele_titel |-> AbsentText, officiele_titel |-> AbsentText]
NoJsonPublisher == [kind |-> "absent", name |-> "", type |-> "absent"]
NoJsonClassification ==
  [classificatiecollectie |-> "absent", cc_informatiecategorieen |-> AbsentList,
   informatiecategorieen |-> AbsentList]

\* an output in the nested layout with an empty list of categories
GoodJsonDoc ==
  JsonDoc("dict", NoJsonPublisher, GoodJsonTitle,
          [classificatiecollectie |-> "dict",
           cc_informatiecategorieen |-> [kind |-> "list", items |-> <<>>],
           informatiecategorieen |-> AbsentList],
          NoConfidence)

\* every classification with a good title, every title and publisher with
\* few classifications, the flat layout, an output that is no JSON object,
\* and every value of each optional key with the other keys absent
JsonDocs ==
  LET NullText == [kind |-> "null", text |-> "-", len |-> 0]

      JsonPublishers ==
        { [kind |-> "absent", name |-> "", type |-> "absent"],
          [kind |-> "dict", name |-> "Gemeente LLM", type |-> "gemeente"],
          [kind |-> "dict", name |-> "Gemeente LLM", type |-> "absent"],
          [kind |-> "dict", name |-> "", type |-> "gemeente"],
          [kind |-> "dict", name |-> "", type |-> "absent"],
          [kind |-> "other", name |-> "", type |-> "absent"] }

      \* the keys a title is read from: titelcollectie, its officieleTitel and
      \* officiele_titel, and the officiele_titel of the old flat layout
      JsonTitles ==
        { [titelcollectie |-> "dict", tc_officieleTitel |-> Text("llm", 4),
           tc_officiele_titel |-> AbsentText, officiele_titel |-> AbsentText],
          [titelcollectie |-> "dict", tc_officieleTitel |-> Text("llm", MaxTitleLen + 1),
           tc_officiele_titel |-> AbsentText, officiele_titel |-> AbsentText],
          [titelcollectie |-> "dict", tc_officieleTitel |-> Text("llm", 0),
           tc_officiele_titel |-> AbsentText, officiele_titel |-> AbsentText],
          [titelcollectie |-> "dict", tc_officieleTitel |-> AbsentText,
           tc_officiele_titel |-> Text("llm", 0), officiele_titel |-> AbsentText],
          [titelcollectie |-> "dict", tc_officieleTitel |-> AbsentText,
           tc_officiele_titel |-> NullText, officiele_titel |-> AbsentText],
          [titelcollectie |-> "dict", tc_officieleTitel |-> AbsentText,
           tc_officiele_titel |-> Text("llm", 4), officiele_titel |-> AbsentText],
          [titelcollectie |-> "absent", tc_officieleTitel |-> AbsentText,
           tc_officiele_titel |-> AbsentText, officiele_titel |-> Text("llm", 4)],
          [titelcollectie |-> "other", tc_officieleTitel |-> AbsentText,
           tc_officiele_titel |-> AbsentText, officiele_titel |-> Text("llm", 4)] }

      \* the old flat layout: a top-level officiele_titel, no titelcollectie
      FlatJsonTitle ==
        [titelcollectie |-> "absent", tc_officieleTitel |-> AbsentText,
         tc_officiele_titel |-> AbsentText, officiele_titel |-> Text("llm", 4)]

      \* one entry of informatiecategorieen
      JsonCategoryItems ==
        { [kind |-> "str", name |-> <<"A","D","V","I","E","Z","E","N">>],
          [kind |-> "str", name |-> <<"w","o","o"," ","v","e","r","z","o","e","k","e","n">>],
          [kind |-> "str", name |-> <<"c","_","5","b","a","2","3","c","0","1">>],
          [kind |-> "missing", name |-> <<>>],
          [kind |-> "null", name |-> <<>>],
          [kind |-> "nondict", name |-> <<>>] }

      JsonCategoryLists ==
        { AbsentList, [kind |-> "null", items |-> <<>>] }
          \cup { [kind |-> "list", items |-> s] : s \in SeqsUpTo(JsonCategoryItems, MaxItems) }

      \* the keys the categories are read from: classificatiecollectie with its
      \* informatiecategorieen, or the informatiecategorieen of the flat layout
      JsonClassifications ==
        { [classificatiecollectie |-> "dict", cc_informatiecategorieen |-> l,
           informatiecategorieen |-> AbsentList] : l \in JsonCategoryLists }
          \cup { [classificatiecollectie |-> k, cc_informatiecategorieen |-> AbsentList,
                  informatiecategorieen |-> l] :
                    k \in {"absent", "other"}, l \in JsonCategoryLists }

      JsonTalen ==
        { AbsentTaal,
          [kind |-> "null", chars |-> <<>>],
          [kind |-> "str", chars |-> <<"n","l">>],
          [kind |-> "str", chars |-> <<"E","n">>],
          [kind |-> "str", chars |-> <<"x","x">>],
          [kind |-> "str", chars |-> <<"c","_","e","n">>] }

      JsonSoortItems ==
        { [kind |-> "str", name |-> <<"b","r","i","e","f">>],
          [kind |-> "str", name |-> <<"W","o","o"," ","b","e","s","l","u","i","t">>],
          [kind |-> "str", name |-> <<"f","o","l","d","e","r">>],
          [kind |-> "other", name |-> <<>>] }

      JsonSoortLists ==
        { AbsentList, [kind |-> "null", items |-> <<>>] }
          \cup { [kind |-> "list", items |-> s] :
                   s \in SeqsUpTo(JsonSoortItems, MaxItems) }

      NullDate == [kind |-> "null", date |-> "", time |-> "", zone |-> ""]

      JsonDates ==
        { AbsentDate, NullDate, RawDate("", "", ""),
          RawDate("2024-01-15", "", ""),
          RawDate("2025-12-31", "T10:30:00", ""),
          RawDate("15 jan 2024", "", "") }

      JsonGeldigheden ==
        { NoJsonGeldigheid,
          [kind |-> "other", begindatum |-> AbsentDate, einddatum |-> AbsentDate] }
          \cup { [kind |-> "dict", begindatum |-> b, einddatum |-> e] :
                   b \in JsonDates, e \in JsonDates }

      JsonRelatieItems ==
        { [kind |-> "other", type |-> AbsentTaal, label |-> ""],
          [kind |-> "dict", type |-> [kind |-> "str", chars |-> <<"b","i","j","l","a","g","e">>],
           label |-> "Bijlage 1"],
          [kind |-> "dict", type |-> [kind |-> "str", chars |-> <<"V","e","r","v","a","n","g","t">>],
           label |-> "Besluit 2023"],
          [kind |-> "dict", type |-> [kind |-> "str", chars |-> <<"c","i","t","e","e","r","t">>],
           label |-> "Rapport"],
          [kind |-> "dict", type |-> AbsentTaal, label |-> "Bijlage 2"],
          [kind |-> "dict", type |-> [kind |-> "null", chars |-> <<>>], label |-> "Bijlage 3"],
          [kind |-> "dict", type |-> [kind |-> "str", chars |-> <<"w","i","j","z","i","g","t">>],
           label |-> ""] }

      JsonRelatieLists ==
        { AbsentList, [kind |-> "other", items |-> <<>>] }
          \cup { [kind |-> "list", items |-> s] :
                   s \in SeqsUpTo(JsonRelatieItems, MaxItems) }
  IN  { JsonDoc("dict", NoJsonPublisher, GoodJsonTitle, c, NoConfidence) :
          c \in JsonClassifications }
        \cup { JsonDoc("dict", p, t, c, NoConfidence) :
                 p \in JsonPublishers, t \in JsonTitles,
                 c \in { k \in JsonClassifications :
                           k.cc_informatiecategorieen.items = <<>>
                           /\ k.informatiecategorieen.items = <<>> } }
        \cup { JsonDoc("dict", NoJsonPublisher, FlatJsonTitle, c, NoConfidence) :
                 c \in { k \in JsonClassifications :
                           k.classificatiecollectie = "absent" } }
        \cup { JsonDoc("list", NoJsonPublisher, GoodJsonTitle,
                       NoJsonClassification, NoConfidence) }
        \cup { [GoodJsonDoc EXCEPT !.taal = t] : t \in JsonTalen }
        \cup { [GoodJsonDoc EXCEPT !.cc_documentsoorten = s] : s \in JsonSoortLists }
        \cup { [GoodJsonDoc EXCEPT !.creatiedatum = c] : c \in JsonDates }
        \cup { [GoodJsonDoc EXCEPT !.geldigheid = g] : g \in JsonGeldigheden }
        \cup { [GoodJsonDoc EXCEPT !.documentrelaties = r] : r \in JsonRelatieLists }

NoXmlGeldigheid ==
  [present |-> FALSE, begindatum |-> AbsentDate, einddatum |-> AbsentDate]
XmlDoc(syntax, schema_valid, has_diwoo, publisher, title, classification, handelingen) ==
  [syntax |-> syntax, schema_valid |-> schema_valid, has_diwoo |-> has_diwoo,
   publisher |-> publisher, titelcollectie |-> title,
   classificatiecollectie |-> classification,
   documenthandelingen |-> handelingen,
   documentsoorten |-> [present |-> FALSE, items |-> <<>>],
   creatiedatum |-> AbsentDate,
   geldigheid |-> NoXmlGeldigheid,
   language |-> [present |-> FALSE, resource |-> NoString],
   documentrelaties |-> [present |-> FALSE, items |-> <<>>]]

EmptyXmlDoc(syntax, schema_valid, has_diwoo) ==
  XmlDoc(syntax, schema_valid, has_diwoo, AbsentOrg,
         [present |-> FALSE, officieleTitel |-> AbsentText],
         [present |-> FALSE, has_list |-> FALSE, informatiecategorieen |-> <<>>],
         [present |-> FALSE, items |-> <<>>])

GoodXmlOrg ==
  [present |-> TRUE, resource |-> GivenUri("gm0363"), label |-> "Gemeente LLM"]
GoodXmlTitle == [present |-> TRUE, officieleTitel |-> Text("llm", 4)]

\* a document with publisher, title and an empty classificatiecollectie
GoodXmlDoc ==
  XmlDoc(TRUE, TRUE, TRUE, GoodXmlOrg, GoodXmlTitle,
         [present |-> TRUE, has_list |-> FALSE, informatiecategorieen |-> <<>>],
         [present |-> FALSE, items |-> <<>>])

\* every classification and list of handling events with a good publisher
\* and title, every publisher and title with few lists, and the answers
\* that fail before an element is read
XmlDocs ==
  LET VASTSTELLING == SoortHandeling[2]

      EN == Taal[2]

      BRIEF == DocumentSoort[1]
  IN  LET XmlOrgs ==
            { AbsentOrg,
              [present |-> TRUE, resource |-> GivenUri("gm0363"), label |-> "Gemeente LLM"],
              [present |-> TRUE, resource |-> NoUri, label |-> ""],
              [present |-> TRUE, resource |-> GivenUri("invalid"), label |-> "Gemeente LLM"] }

          XmlTitles ==
            { [present |-> FALSE, officieleTitel |-> AbsentText],
              [present |-> TRUE, officieleTitel |-> AbsentText],
              [present |-> TRUE, officieleTitel |-> Text("llm", 0)],
              [present |-> TRUE, officieleTitel |-> Text("llm", 4)],
              [present |-> TRUE, officieleTitel |-> Text("llm", MaxTitleLen + 1)] }

          \* the resource attribute of an informatiecategorie element, from its last "/"
          XmlCategoryResources ==
            { NoString,
              Str(<<"c","_","5","b","a","2","3","c","0","1">>),
              Str(<<"c","_","4","e","d","c","7","f","f","0">>),
              Str(<<"c","_","b","o","g","u","s">>),
              Str(<<"A","D","V","I","E","Z","E","N">>) }

          XmlClassifications ==
            { [present |-> FALSE, has_list |-> FALSE, informatiecategorieen |-> <<>>],
              [present |-> TRUE, has_list |-> FALSE, informatiecategorieen |-> <<>>] }
              \cup { [present |-> TRUE, has_list |-> TRUE, informatiecategorieen |-> s] :
                       s \in SeqsUpTo(XmlCategoryResources, MaxItems) }

          XmlHandelingItems ==
            { [wasAssociatedWith |-> AbsentOrg,
               soortHandeling |-> [present |-> FALSE, resource |-> NoString],
               atTime |-> "absent"],
              [wasAssociatedWith |-> [present |-> TRUE, resource |-> GivenUri("gm0363"),
                                      label |-> "Gemeente LLM"],
               soortHandeling |-> [present |-> TRUE,
                                   resource |-> Str(VASTSTELLING.value)],
               atTime |-> "valid"],
              [wasAssociatedWith |-> [present |-> TRUE, resource |-> GivenUri("invalid"),
                                      label |-> "Gemeente LLM"],
               soortHandeling |-> [present |-> TRUE,
                                   resource |-> Str(<<"c","_","b","o","g","u","s">>)],
               atTime |-> "invalid"] }

          XmlHandelingen ==
            { [present |-> FALSE, items |-> <<>>] }
              \cup { [present |-> TRUE, items |-> s] :
                       s \in SeqsUpTo(XmlHandelingItems, MaxItems) }

          \* every value of each optional element with the other elements absent
          XmlOptionalDocs ==
            LET \* the optional elements: language, documentsoorten, creatiedatum,
                \* geldigheid, documentrelaties
                XmlLanguages ==
                  { [present |-> FALSE, resource |-> NoString],
                    [present |-> TRUE, resource |-> NoString],
                    [present |-> TRUE, resource |-> Str(NL.value)],
                    [present |-> TRUE, resource |-> Str(EN.value)],
                    [present |-> TRUE, resource |-> Str(<<"c","_","x","x">>)],
                    [present |-> TRUE, resource |-> Str(<<"E","N">>)] }

                XmlSoorten ==
                  { [present |-> FALSE, items |-> <<>>] }
                    \cup { [present |-> TRUE, items |-> s] :
                             s \in SeqsUpTo({ Str(BRIEF.value), Str(<<"c","_","b","o","g","u","s">>),
                                              NoString }, MaxItems) }

                XmlDates ==
                  { AbsentDate,
                    RawDate("2024-01-15", "", ""),
                    RawDate("2025-12-31", "T10:30:00", ""),
                    RawDate("2025-12-31", "T10:30:00", "Z"),
                    RawDate("15 jan 2024", "", "") }

                XmlGeldigheden ==
                  { NoXmlGeldigheid }
                    \cup { [present |-> TRUE, begindatum |-> b, einddatum |-> e] :
                             b \in XmlDates, e \in XmlDates }

                XmlRelatieItems ==
                  { [has_role |-> FALSE, has_relation |-> TRUE, role |-> NoString,
                     label |-> "Bijlage 1", resource |-> "None"],
                    [has_role |-> TRUE, has_relation |-> TRUE, role |-> Str(VERVANGT.value),
                     label |-> "Besluit 2023", resource |-> "https://example.org/besluit"],
                    [has_role |-> TRUE, has_relation |-> TRUE,
                     role |-> Str(<<"c","_","c","i","t","e","e","r","t">>),
                     label |-> "", resource |-> "None"],
                    [has_role |-> TRUE, has_relation |-> TRUE, role |-> NoString,
                     label |-> "Bijlage 2", resource |-> "None"] }

                XmlRelaties ==
                  { [present |-> FALSE, items |-> <<>>] }
                    \cup { [present |-> TRUE, items |-> s] :
                             s \in SeqsUpTo(XmlRelatieItems, MaxItems) }
            IN  { [GoodXmlDoc EXCEPT !.language = l] : l \in XmlLanguages }
                  \cup { [GoodXmlDoc EXCEPT !.documentsoorten = s,
                                           !.classificatiecollectie.present = c] :
                           s \in XmlSoorten, c \in BOOLEAN }
                  \cup { [GoodXmlDoc EXCEPT !.creatiedatum = c] : c \in XmlDates }
                  \cup { [GoodXmlDoc EXCEPT !.geldigheid = g] : g \in XmlGeldigheden }
                  \cup { [GoodXmlDoc EXCEPT !.documentrelaties = r] : r \in XmlRelaties }
      IN  { XmlDoc(TRUE, TRUE, TRUE, p, GoodXmlTitle, c, h) :
              p \in {AbsentOrg, GoodXmlOrg},
              c \in XmlClassifications, h \in XmlHandelingen }
            \cup { XmlDoc(TRUE, TRUE, TRUE, p, t, c, h) :
                     p \in XmlOrgs, t \in XmlTitles,
                     c \in { k \in XmlClassifications : k.informatiecategorieen = <<>> },
                     h \in { k \in XmlHandelingen : k.items = <<>> } }
            \cup { EmptyXmlDoc(FALSE, FALSE, FALSE), EmptyXmlDoc(TRUE, TRUE, FALSE),
                   EmptyXmlDoc(TRUE, FALSE, FALSE), EmptyXmlDoc(TRUE, FALSE, TRUE),
                   XmlDoc(TRUE, FALSE, TRUE,
                          [present |-> TRUE, resource |-> GivenUri("invalid"),
                           label |-> "Gemeente LLM"],
                          GoodXmlTitle,
                          [present |-> FALSE, has_list |-> FALSE,
                           informatiecategorieen |-> <<>>],
                          [present |-> FALSE, items |-> <<>>]) }
            \cup XmlOptionalDocs

(***************************************************************************)
(* Extraction prompt (services/prompt_templates.py).                       *)
(*                                                                         *)
(* A document text is a sequence of characters; the prompt is the template *)
(* with its three placeholders filled in.                                  *)
(***************************************************************************)
\* the longest document text
MaxTextLen == 4

\* "\n\n[... TEKST AFGEKAPT WEGENS LENGTE ...]", appended as one piece
TruncationMarker == "[... TEKST AFGEKAPT WEGENS LENGTE ...]"

\* document_text[:max_text_length] for max_text_length >= 0
Truncate(document_text, max_text_length) ==
  SubSeq(document_text, 1, Min(Len(document_text), max_text_length))

\* truncated_text (lines 140-142)
TruncatedText_markAtLimit(document_text, max_text_length) ==
  Truncate(document_text, max_text_length)
    \o (IF Len(document_text) >= max_text_length
        THEN <<TruncationMarker>> ELSE <<>>)

TruncatedText(document_text, max_text_length) ==
  Truncate(document_text, max_text_length)
    \o (IF Len(document_text) > max_text_length
        THEN <<TruncationMarker>> ELSE <<>>)

\* build_extraction_prompt(document_text, publisher_hint, max_text_length,
\* output_mode): publisher_hint is "" for None
BuildExtractionPrompt(document_text, publisher_hint, max_text_length, output_mode) ==
  LET \* category_options: one line "- NAME: label" per category
      CategoryOptions ==
        [i \in 1..Len(InformatieCategorie) |->
           [name |-> InformatieCategorie[i].name,
            label |-> INFORMATIECATEGORIE_LABELS[i]]]
  IN  [template |-> IF output_mode = "xml" THEN "EXTRACTION_PROMPT_XML"
                    ELSE "EXTRACTION_PROMPT_JSON",
       document_text |-> TruncatedText(document_text, max_text_length),
       publisher_hint |-> IF publisher_hint = "" THEN ""
                          ELSE "PUBLISHER HINT: " \o publisher_hint,
       category_options |-> CategoryOptions]

(***************************************************************************)
(* State.                                                                  *)
(***************************************************************************)
VARIABLES
  settings,        \* Settings: llm_provider, llm_api_key, custom_llm_base_url,
                   \* llm_max_retries
  entry,           \* the caller: an API handler, a script, or a direct user
                   \* of OpenRouterClient
  args,            \* what the caller was given
  pc,              \* where the request is
  request,         \* the MetadataGenerationRequest the caller built
  request_id,      \* generate's request_id ("" before it is assigned)
  generator,       \* MetadataGenerator: _client set, _owns_client, and
                   \* whether close() and a generate after it were called
  sdk_client,      \* OpenRouterClient._client: "None" or "cached"
  sdk_open,        \* SDK clients constructed and not closed
  httpx_open,      \* httpx.AsyncClient instances open
  acquired,        \* provider HTTP clients constructed so far
  route,           \* the path chat_completion dispatched to
  call,            \* the overrides chat_completion was called with
  effective,       \* the base URL and API key the path resolved
  attempt,         \* with_retry: the loop variable
  last_exception,  \* with_retry: last_exception
  calls,           \* how often func() was invoked
  retry_log,       \* the "Retrying after ..." warnings: attempt, delay slept
  last_error,      \* what the latest attempt raised
  only_503,        \* every failed attempt so far answered HTTP 503
  completion,      \* the ChatCompletionResponse returned
  exc,             \* the exception raised
  exc_cause,       \* its __cause__
  response,        \* the MetadataGenerationResponse returned by generate
  t_pc, t_input, t_result   \* a transformer applied to one LLM output

vars ==
  <<settings, entry, args, pc, request, request_id, generator, sdk_client,
    sdk_open, httpx_open, acquired, route, call, effective, attempt,
    last_exception, calls, retry_log, last_error, only_503, completion, exc,
    exc_cause, response, t_pc, t_input, t_result>>

config_vars == <<settings, entry, args>>
resource_vars == <<sdk_client, sdk_open, httpx_open, acquired>>
retry_vars == <<attempt, last_exception, calls, retry_log, last_error, only_503>>
transform_vars == <<t_pc, t_input, t_result>>

NoException == [type |-> "None", code |-> 0]
Exception(type) == [type |-> type, code |-> 0]
HTTPStatusError(code) == [type |-> "HTTPStatusError", code |-> code]

\* Python truthiness of a str | None
TruthyStr(s) == s # "None" /\ s # ""

(***************************************************************************)
(* Transformers applied to a single LLM output.                            *)
(***************************************************************************)
NotRun == [exc |-> "not run", field |-> "-", value |-> NoRecord]

IdleInput ==
  [mode |-> "none",
   json |-> JsonDoc("list", NoJsonPublisher, GoodJsonTitle,
                    NoJsonClassification, NoConfidence),
   xml |-> EmptyXmlDoc(FALSE, FALSE, FALSE), hint |-> NoHint,
   validate |-> FALSE, schema_loaded |-> FALSE]

(***************************************************************************)
(* Completions and responses.                                              *)
(***************************************************************************)
NoContent ==
  [format |-> "other", xml |-> EmptyXmlDoc(FALSE, FALSE, FALSE),
   json |-> IdleInput.json]

NoSuggestion ==
  [present |-> FALSE, metadata |-> NoRecord,
   confidence |-> [overall |-> 0, fields |-> <<>>]]
NoError == [present |-> FALSE, prefix |-> "", of |-> "None"]
\* the state of a process that has served nothing yet
Constructed ==
  LET NoResponse ==
        [returned |-> FALSE, success |-> FALSE, request_id |-> "",
         suggestion |-> NoSuggestion, error |-> NoError]
  IN  /\ request = [built |-> FALSE, publisher_hint |-> NoHint, model |-> "None",
                    include_confidence |-> TRUE]
      /\ request_id = ""
      /\ generator = [client |-> FALSE, owns_client |-> FALSE,
                      closed |-> FALSE, again |-> FALSE]
      /\ sdk_client = "None"
      /\ sdk_open = 0
      /\ httpx_open = 0
      /\ acquired = 0
      /\ route = "none"
      /\ call = [api_key |-> "None", custom_base_url |-> "None", model |-> "None"]
      /\ effective = [base_url |-> "", api_key |-> "", model |-> ""]
      /\ attempt = 0
      /\ last_exception = NoException
      /\ calls = 0
      /\ retry_log = <<>>
      /\ last_error = NoException
      /\ only_503 = TRUE
      /\ completion = [attempt |-> 0, n_choices |-> 0, content |-> NoContent]
      /\ exc = NoException
      /\ exc_cause = NoException
      /\ response = NoResponse

DefaultArgs ==
  [api_key |-> "None", custom_base_url |-> "None", output_mode |-> "xml",
   validate_xml |-> FALSE, include_confidence |-> TRUE,
   schema_loaded |-> TRUE, publisher_hint |-> NoHint,
   model |-> "mistralai/requested", injected |-> FALSE]

InitTransform ==
  LET TransformInputs ==
        LET Hints ==
              { NoHint,
                [present |-> TRUE, name |-> "Gemeente Hint", tooi_uri |-> NoUri],
                [present |-> TRUE, name |-> "Gemeente Hint", tooi_uri |-> GivenUri("gm0363")] }
        IN  { [mode |-> "json", json |-> d, xml |-> EmptyXmlDoc(FALSE, FALSE, FALSE),
               hint |-> h, validate |-> FALSE, schema_loaded |-> FALSE] :
                 d \in JsonDocs, h \in Hints }
              \cup
            { [mode |-> "xml", json |-> IdleInput.json, xml |-> x, hint |-> NoHint,
               validate |-> v, schema_loaded |-> v] :
                 x \in XmlDocs, v \in BOOLEAN }
              \cup
            \* validation requested and load_xsd_schema() returned None
            { [mode |-> "xml", json |-> IdleInput.json, xml |-> x, hint |-> NoHint,
               validate |-> TRUE, schema_loaded |-> FALSE] :
                 x \in { k \in XmlDocs : ~k.schema_valid } }
  IN  /\ Constructed
      /\ pc = "idle"
      /\ entry = "none"
      /\ args = DefaultArgs
      /\ settings = [llm_provider |-> "openrouter", llm_api_key |-> "",
                     custom_llm_base_url |-> "",
                     llm_max_retries |-> DefaultMaxRetries]
      /\ t_pc = "input"
      /\ t_input \in TransformInputs
      /\ t_result = NotRun

\* _transform_to_diwoo(llm_output, request.publisher_hint)
TransformJson ==
  /\ t_pc = "input"
  /\ t_input.mode = "json"
  /\ t_result' = TransformToDiwoo(t_input.json, t_input.hint)
  /\ t_pc' = "done"
  /\ UNCHANGED <<t_input, config_vars, pc, request, request_id, generator,
                 resource_vars, route, call, effective, retry_vars, completion,
                 exc, exc_cause, response>>

\* parse_xml_to_diwoo(raw_content, validate=validate_xml)
TransformXml ==
  /\ t_pc = "input"
  /\ t_input.mode = "xml"
  /\ t_result' = ParseXmlToDiwoo(t_input.xml, t_input.validate,
                                 t_input.schema_loaded)
  /\ t_pc' = "done"
  /\ UNCHANGED <<t_input, config_vars, pc, request, request_id, generator,
                 resource_vars, route, call, effective, retry_vars, completion,
                 exc, exc_cause, response>>

\* POST /validate with the serialised record of a suggestion:
\* DiWooMetadata.model_validate(metadata.to_dict())
ValidateMetadata ==
  /\ t_pc = "done"
  /\ t_result.exc = "none"
  /\ LET validated == ModelValidate(ToDict(t_result.value))
     IN  t_result' = [exc |-> validated.exc, field |-> validated.field,
                      value |-> validated.value, original |-> t_result.value]
  /\ t_pc' = "validated"
  /\ UNCHANGED <<t_input, config_vars, pc, request, request_id, generator,
                 resource_vars, route, call, effective, retry_vars, completion,
                 exc, exc_cause, response>>

NextTransform == TransformJson \/ TransformXml \/ ValidateMetadata

SpecTransform == InitTransform /\ [][NextTransform]_vars

\* the prompt builder on its own
InitPrompt ==
  LET PromptInputs ==
        { [mode |-> "prompt", document_text |-> t, publisher_hint |-> h,
           max_text_length |-> m, output_mode |-> o] :
             t \in SeqsUpTo({"a", "b"}, MaxTextLen), h \in {"", "Gemeente Amsterdam"},
             m \in 0..(MaxTextLen + 1), o \in {"json", "xml"} }
  IN  /\ Constructed
      /\ pc = "idle"
      /\ entry = "none"
      /\ args = DefaultArgs
      /\ settings = [llm_provider |-> "openrouter", llm_api_key |-> "",
                     custom_llm_base_url |-> "",
                     llm_max_retries |-> DefaultMaxRetries]
      /\ t_pc = "input"
      /\ t_input \in PromptInputs
      /\ t_result = NotRun

\* prompt = build_extraction_prompt(document_text=..., publisher_hint=...,
\*                                  max_text_length=..., output_mode=...)
BuildPrompt ==
  /\ t_pc = "input"
  /\ t_input.mode = "prompt"
  /\ t_result' = Ok(BuildExtractionPrompt(t_input.document_text,
                                          t_input.publisher_hint,
                                          t_input.max_text_length,
                                          t_input.output_mode))
  /\ t_pc' = "done"
  /\ UNCHANGED <<t_input, config_vars, pc, request, request_id, generator,
                 resource_vars, route, call, effective, retry_vars, completion,
                 exc, exc_cause, response>>

NextPrompt == BuildPrompt

SpecPrompt == InitPrompt /\ [][NextPrompt]_vars

\* _anthropic_chat_completion, lines 337-353: the payload built from the
\* messages; system_text starts as None and each system message overwrites it
AnthropicPayload(messages) ==
  LET RECURSIVE Loop(_, _, _)
      Loop(ms, system_text, user_messages) ==
        IF ms = <<>>
        THEN [system_text |-> system_text, user_messages |-> user_messages]
        ELSE LET m == Head(ms)
             IN  IF m.role = "system"
                 THEN Loop(Tail(ms), [present |-> TRUE, text |-> m.content],
                           user_messages)
                 ELSE Loop(Tail(ms), system_text,
                           Append(user_messages,
                                  [role |-> m.role, content |-> m.content]))
      looped == Loop(messages, [present |-> FALSE, text |-> ""], <<>>)
      \* if system_text: payload["system"] = system_text
      truthy == looped.system_text.present /\ looped.system_text.text # ""
  IN  [messages |-> looped.user_messages,
       system |-> IF truthy THEN looped.system_text
                  ELSE [present |-> FALSE, text |-> ""]]

\* the Anthropic payload on its own: chat_completion(messages) with
\* llm_provider = "anthropic" and an API key
InitPayload ==
  LET ChatMessages ==
        [role : {"system", "user", "assistant"}, content : {"", "p", "q"}]
  IN  /\ Constructed
      /\ pc = "idle"
      /\ entry = "none"
      /\ args = DefaultArgs
      /\ settings = [llm_provider |-> "anthropic", llm_api_key |-> "settings-key",
                     custom_llm_base_url |-> "",
                     llm_max_retries |-> DefaultMaxRetries]
      /\ t_pc = "input"
      /\ t_input \in { [mode |-> "messages", messages |-> ms] :
                          ms \in SeqsUpTo(ChatMessages, MaxItems) }
      /\ t_result = NotRun

BuildPayload ==
  /\ t_pc = "input"
  /\ t_input.mode = "messages"
  \* chat_completion, lines 171-191: no custom base URL, provider anthropic
  /\ call.custom_base_url = "None"
  /\ settings.llm_provider = "anthropic"
  /\ t_result' = Ok(AnthropicPayload(t_input.messages))
  /\ t_pc' = "done"
  /\ UNCHANGED <<t_input, config_vars, pc, request, request_id, generator,
                 resource_vars, route, call, effective, retry_vars, completion,
                 exc, exc_cause, response>>

NextPayload == BuildPayload

SpecPayload == InitPayload /\ [][NextPayload]_vars

InitTaxonomy ==
  LET \* the taxonomy on its own: one member of one taxonomy
      TaxonomyInputs ==
        UNION { { [mode |-> "taxonomy", taxonomy |-> t, index |-> i] :
                    i \in 1..Len(Taxonomies[t]) } : t \in DOMAIN Taxonomies }
  IN  /\ Constructed
      /\ pc = "idle"
      /\ entry = "none"
      /\ args = DefaultArgs
      /\ settings = [llm_provider |-> "openrouter", llm_api_key |-> "",
                     custom_llm_base_url |-> "",
                     llm_max_retries |-> DefaultMaxRetries]
      /\ t_pc = "input"
      /\ t_input \in TaxonomyInputs
      /\ t_result = NotRun

\* code = _extract_category_code(resource) on the member's tooi_uri
ExtractCode ==
  /\ t_pc = "input"
  /\ t_input.mode = "taxonomy"
  /\ t_result' = Ok(ExtractCategoryCode(
                      Str(TooiUri(Taxonomies[t_input.taxonomy][t_input.index]))))
  /\ t_pc' = "done"
  /\ UNCHANGED <<t_input, config_vars, pc, request, request_id, generator,
                 resource_vars, route, call, effective, retry_vars, completion,
                 exc, exc_cause, response>>

NextTaxonomy == ExtractCode

SpecTaxonomy == InitTaxonomy /\ [][NextTaxonomy]_vars

(***************************************************************************)
(* PublicatiebankClient (services/publicatiebank_client.py): one call of   *)
(* get_document, get_document_metadata or download_document. t_result      *)
(* holds the requests sent, the responses received and the exception       *)
(* raised.                                                                 *)
(***************************************************************************)
\* get_document_metadata after client.get(url): the status check, the
\* raise_for_status(), response.json() and the two except clauses
MetadataResult(resp) ==
  IF resp.kind = "request_error"
  THEN [exc |-> "PublicatiebankError", message |-> "Failed to connect to publicatiebank"]
  ELSE IF resp.status_code = 404
  THEN [exc |-> "DocumentNotFoundError", message |-> "not found in publicatiebank"]
  ELSE IF resp.status_code >= 400
  THEN [exc |-> "PublicatiebankError", message |-> "Publicatiebank API error"]
  ELSE IF resp.body = "invalid"
  THEN [exc |-> "JSONDecodeError", message |-> ""]
  ELSE [exc |-> "none", message |-> ""]

\* download_document after client.get(url)
DownloadResult_conflictUnchecked(resp) ==
  IF resp.kind = "request_error"
  THEN [exc |-> "DocumentDownloadError", message |-> "Failed to download document"]
  ELSE IF resp.status_code = 404
  THEN [exc |-> "DocumentNotFoundError", message |-> "not found in publicatiebank"]
  ELSE IF resp.status_code >= 400
  THEN [exc |-> "DocumentDownloadError", message |-> "Download failed"]
  ELSE [exc |-> "none", message |-> ""]

DownloadResult(resp) ==
  IF resp.kind = "request_error"
  THEN [exc |-> "DocumentDownloadError", message |-> "Failed to download document"]
  ELSE IF resp.status_code = 404
  THEN [exc |-> "DocumentNotFoundError", message |-> "not found in publicatiebank"]
  ELSE IF resp.status_code = 409
  THEN [exc |-> "DocumentDownloadError", message |-> "upload is not yet completed"]
  ELSE IF resp.status_code >= 400
  THEN [exc |-> "DocumentDownloadError", message |-> "Download failed"]
  ELSE [exc |-> "none", message |-> ""]

\* what the publicatiebank answers to a GET: a response with a status and, for
\* the metadata, a body that is a complete document, lacks a key or is no
\* JSON; or no response at all (httpx.RequestError)
PublicatiebankResponses ==
  { [kind |-> "response", status_code |-> s, body |-> "complete"] :
      s \in {200, 404, 409, 500} }
    \cup { [kind |-> "response", status_code |-> 200, body |-> b] :
             b \in {"incomplete", "invalid"} }
    \cup { [kind |-> "request_error", status_code |-> 0, body |-> ""] }

\* PublicatiebankClient(base_url, api_token) and the method called on it
InitPublicatiebank ==
  LET \* (base_url or settings.gpp_publicatiebank_url or "").rstrip("/")
      Or(a, b) == IF a # "None" /\ a # "" THEN a ELSE b
      RStripSlash(s) == CASE s = "/" -> ""
                          [] s = "http://pb/" -> "http://pb"
                          [] s = "None" -> ""
                          [] OTHER -> s
  IN  /\ Constructed
      /\ pc = "idle"
      /\ entry = "none"
      /\ args = DefaultArgs
      /\ settings = [llm_provider |-> "openrouter", llm_api_key |-> "",
                     custom_llm_base_url |-> "",
                     llm_max_retries |-> DefaultMaxRetries]
      /\ t_pc = "input"
      /\ \E base_url \in {"None", "/", "http://pb/"},
            gpp_publicatiebank_url \in {"None", "http://settings-pb"},
            api_token \in {"None", "token"},
            method \in {"get_document", "get_document_metadata",
                        "download_document"} :
           t_input = [mode |-> "publicatiebank", method |-> method,
                      base_url |-> RStripSlash(Or(base_url, gpp_publicatiebank_url)),
                      given_url |-> base_url,
                      gpp_publicatiebank_url |-> gpp_publicatiebank_url,
                      api_token |-> api_token]
      /\ t_result = [exc |-> "none", message |-> "", requests |-> <<>>,
                     responses |-> <<>>, metadata |-> "None", content |-> FALSE]

\* get_document_metadata(document_uuid), called directly or as the first
\* await of get_document
GetDocumentMetadata ==
  /\ t_pc = "input"
  /\ t_input.mode = "publicatiebank"
  /\ t_input.method \in {"get_document", "get_document_metadata"}
  /\ IF t_input.base_url = ""
     THEN /\ t_result' = [t_result EXCEPT
                            !.exc = "PublicatiebankNotConfiguredError",
                            !.message = "GPP_PUBLICATIEBANK_URL is not configured"]
          /\ t_pc' = "pb_raised"
     ELSE \E resp \in PublicatiebankResponses :
            LET result == MetadataResult(resp)
            IN  /\ t_result' = [t_result EXCEPT
                                  !.requests = Append(@, "/api/v2/documenten/{uuid}"),
                                  !.responses = Append(@, resp),
                                  !.exc = result.exc,
                                  !.message = result.message,
                                  !.metadata = IF result.exc = "none"
                                               THEN resp.body ELSE @]
                /\ t_pc' = IF result.exc # "none" THEN "pb_raised"
                           ELSE IF t_input.method = "get_document"
                           THEN "pb_download"
                           ELSE "pb_returned"
  /\ UNCHANGED <<t_input, config_vars, pc, request, request_id, generator,
                 resource_vars, route, call, effective, retry_vars, completion,
                 exc, exc_cause, response>>

\* download_document(document_uuid), called directly or as the second await
\* of get_document, which then builds the PublicatiebankDocument
DownloadDocument ==
  /\ \/ t_pc = "input" /\ t_input.mode = "publicatiebank"
          /\ t_input.method = "download_document"
     \/ t_pc = "pb_download"
  /\ IF t_input.base_url = ""
     THEN /\ t_result' = [t_result EXCEPT
                            !.exc = "PublicatiebankNotConfiguredError",
                            !.message = "GPP_PUBLICATIEBANK_URL is not configured"]
          /\ t_pc' = "pb_raised"
     ELSE \E resp \in { r \in PublicatiebankResponses : r.body \in {"", "complete"} } :
            LET result == DownloadResult(resp)
                \* metadata["uuid"], metadata["officiele_titel"], ...
                key_error == /\ result.exc = "none"
                             /\ t_input.method = "get_document"
                             /\ t_result.metadata = "incomplete"
            IN  /\ t_result' = [t_result EXCEPT
                                  !.requests = Append(@, "/api/v2/documenten/{uuid}/download"),
                                  !.responses = Append(@, resp),
                                  !.exc = IF key_error THEN "KeyError" ELSE result.exc,
                                  !.message = result.message,
                                  !.content = (result.exc = "none")]
                /\ t_pc' = IF result.exc # "none" \/ key_error THEN "pb_raised"
                           ELSE "pb_returned"
  /\ UNCHANGED <<t_input, config_vars, pc, request, request_id, generator,
                 resource_vars, route, call, effective, retry_vars, completion,
                 exc, exc_cause, response>>

NextPublicatiebank == GetDocumentMetadata \/ DownloadDocument

SpecPublicatiebank == InitPublicatiebank /\ [][NextPublicatiebank]_vars

(***************************************************************************)
(* C1: every record either transformer returns holds at least one          *)
(* information category and at least one handling event, and the           *)
(* transformer itself sees to it: it never fails the model's validation    *)
(* of these two lists for want of an entry.                                *)
(***************************************************************************)
C1_AtLeastOneCategoryAndHandeling ==
  t_pc = "done" =>
    /\ t_result.exc = "none" =>
         /\ Len(t_result.value.informatiecategorieen) >= 1
         /\ Len(t_result.value.documenthandelingen) >= 1
    /\ ~(t_result.exc = "ValidationError"
         /\ t_result.field \in {"informatiecategorieen", "documenthandelingen"})

\* a record returned for an output none of whose categories is known
C1_Witness ==
  /\ t_pc = "done"
  /\ t_result.exc = "none"
  /\ t_input.mode = "json"
  /\ t_input.json.classificatiecollectie = "dict"
  /\ t_input.json.cc_informatiecategorieen.kind = "list"
  /\ Len(t_input.json.cc_informatiecategorieen.items) = MaxItems
  /\ \A i \in 1..MaxItems :
       t_input.json.cc_informatiecategorieen.items[i].kind = "missing"
  /\ t_result.value.informatiecategorieen = <<OVERIGE_BESLUITEN_AS>>
  /\ Len(t_result.value.documenthandelingen) = 1

(***************************************************************************)
(* The generation request: callers, generate, chat_completion, with_retry. *)
(***************************************************************************)
GenerationEntries ==
  {"generate_metadata", "generate_metadata_from_file", "generate"}

Init ==
  LET SettingsSet ==
        LET Providers == {"openrouter", "anthropic", "custom"}
        IN  [llm_provider : Providers,
             llm_api_key : {"", "settings-key"},
             custom_llm_base_url : {"", "http://settings-llm"},
             llm_max_retries : {0, 1, DefaultMaxRetries, MaxAttempts}]

      Entries ==
        {"generate_metadata", "generate_metadata_from_file", "generate",
         "chat_completion"}

      SomeHint == [present |-> TRUE, name |-> "Gemeente Hint", tooi_uri |-> NoUri]

      \* what each caller can be given
      ArgsFor(e) ==
        CASE e = "generate_metadata" ->
               { [DefaultArgs EXCEPT !.api_key = a, !.custom_base_url = u] :
                   a \in {"None", "request-key"}, u \in {"None", "http://request-llm"} }
          [] e = "generate_metadata_from_file" ->
               { [DefaultArgs EXCEPT !.api_key = a, !.custom_base_url = u] :
                   a \in {"None", "request-key"}, u \in {"None", "http://request-llm"} }
          [] e = "generate" ->
               { [DefaultArgs EXCEPT !.validate_xml = v, !.schema_loaded = l] :
                   v \in BOOLEAN, l \in {TRUE} }
                 \cup { [DefaultArgs EXCEPT !.validate_xml = TRUE,
                                            !.schema_loaded = FALSE] }
                 \cup { [DefaultArgs EXCEPT !.output_mode = "json",
                                            !.include_confidence = c,
                                            !.publisher_hint = SomeHint] :
                          c \in BOOLEAN }
                 \cup { [DefaultArgs EXCEPT !.injected = TRUE] }
          [] OTHER ->
               { [DefaultArgs EXCEPT !.api_key = a, !.custom_base_url = u,
                                     !.model = m] :
                   a \in {"None", "request-key"},
                   u \in {"None", "", "http://request-llm"},
                   m \in {"None", "mistralai/requested"} }
  IN  /\ Constructed
      /\ pc = "start"
      /\ settings \in SettingsSet
      /\ entry \in Entries
      /\ args \in ArgsFor(entry)
      /\ t_pc = "idle"
      /\ t_input = IdleInput
      /\ t_result = NotRun

\* MetadataGenerationRequest(document, publisher_hint, model,
\* include_confidence): the model declares no api_key and no custom_base_url,
\* and keyword arguments it does not declare are dropped
MetadataGenerationRequest(publisher_hint, model, include_confidence, api_key, custom_base_url) ==
  [built |-> TRUE, publisher_hint |-> publisher_hint, model |-> model,
   include_confidence |-> include_confidence]

\* POST /generate: _check_api_key(request.api_key) reads an attribute the
\* request model does not have
GenerateMetadata ==
  /\ pc = "start"
  /\ entry = "generate_metadata"
  /\ request' = MetadataGenerationRequest(args.publisher_hint, args.model,
                                          args.include_confidence,
                                          args.api_key, args.custom_base_url)
  /\ exc' = Exception("AttributeError")
  /\ pc' = "handler_raised"
  /\ UNCHANGED <<config_vars, request_id, generator, resource_vars, route,
                 call, effective, retry_vars, completion, exc_cause, response,
                 transform_vars>>

\* POST /generate-from-file up to generator.generate(request)
GenerateMetadataFromFile ==
  LET \* _check_api_key(per_request_key): TRUE when it raises HTTPException
      CheckApiKeyFails(per_request_key) ==
        /\ ~TruthyStr(per_request_key)
        /\ settings.llm_api_key = ""
        /\ settings.llm_provider # "custom"
  IN  /\ pc = "start"
      /\ entry = "generate_metadata_from_file"
      /\ IF CheckApiKeyFails(args.api_key)
         THEN /\ exc' = Exception("HTTPException")
              /\ pc' = "handler_raised"
              /\ UNCHANGED <<request, generator>>
         ELSE /\ request' = MetadataGenerationRequest(args.publisher_hint, args.model,
                                                      args.include_confidence,
                                                      args.api_key,
                                                      args.custom_base_url)
              /\ generator' = [client |-> FALSE, owns_client |-> TRUE,
                                closed |-> FALSE, again |-> FALSE]
              /\ pc' = "generate"
              /\ UNCHANGED exc
      /\ UNCHANGED <<config_vars, request_id, resource_vars, route, call,
                     effective, retry_vars, completion, exc_cause, response,
                     transform_vars>>

\* a caller of generate (a script, the CLI): MetadataGenerator() or
\* MetadataGenerator(client=...), generate(request, output_mode, validate_xml)
ScriptGenerate ==
  /\ pc = "start"
  /\ entry = "generate"
  /\ request' = MetadataGenerationRequest(args.publisher_hint, args.model,
                                          args.include_confidence,
                                          args.api_key, args.custom_base_url)
  /\ generator' = [client |-> args.injected, owns_client |-> ~args.injected,
                    closed |-> FALSE, again |-> FALSE]
  /\ pc' = "generate"
  /\ UNCHANGED <<config_vars, request_id, resource_vars, route, call,
                 effective, retry_vars, completion, exc, exc_cause, response,
                 transform_vars>>

\* a user of get_openrouter_client(): OpenRouterClient(), chat_completion(
\* messages, api_key=..., custom_base_url=...)
DirectChatCompletion ==
  /\ pc = "start"
  /\ entry = "chat_completion"
  /\ call' = [api_key |-> args.api_key, custom_base_url |-> args.custom_base_url,
              model |-> args.model]
  /\ pc' = "chat_completion"
  /\ UNCHANGED <<config_vars, request, request_id, generator, resource_vars,
                 route, effective, retry_vars, completion, exc, exc_cause,
                 response, transform_vars>>

RequestIds == {"uuid-a", "uuid-b"}

\* generate, lines 94-130: the request id, the client, the prompt and the
\* call client.chat_completion(messages, model, temperature, response_format)
GenerateBegin ==
  /\ pc = "generate"
  /\ \E id \in RequestIds, failure \in {"none", "client", "prompt"} :
       \* _get_client() builds the client only when there is none
       /\ failure = "client" => ~generator.client
       /\ request_id' = id
       /\ generator' = [generator EXCEPT !.client = (failure # "client")]
       /\ IF failure = "none"
          THEN /\ call' = [api_key |-> "None", custom_base_url |-> "None",
                           model |-> request.model]
               /\ pc' = "chat_completion"
               /\ UNCHANGED exc
          ELSE /\ exc' = Exception(IF failure = "client" THEN "ValidationError"
                                   ELSE "InstructionNotFoundError")
               /\ pc' = "gen_except"
               /\ UNCHANGED call
  /\ UNCHANGED <<config_vars, request, resource_vars, route, effective,
                 retry_vars, completion, exc_cause, response, transform_vars>>

\* where an exception raised in chat_completion arrives, and where its result
Raised == IF entry = "chat_completion" THEN "cc_raised" ELSE "gen_except"
\* chat_completion, lines 171-202: the path taken
Route_providerFirst(llm_provider, custom_base_url) ==
  IF llm_provider = "anthropic" THEN "anthropic"
  ELSE IF custom_base_url # "None" \/ llm_provider = "custom" THEN "custom"
  ELSE "openrouter"

Route(llm_provider, custom_base_url) ==
  LET use_custom == \/ custom_base_url # "None"
                    \/ (llm_provider = "custom" /\ custom_base_url = "None")
  IN  IF use_custom THEN "custom"
      ELSE IF llm_provider = "anthropic" THEN "anthropic"
      ELSE "openrouter"

\* the base URL and API key a path resolves
Effective(path) ==
  LET \* a or b on strings
      StrOr(a, b) == IF TruthyStr(a) THEN a ELSE b

      \* model or self.settings.default_model
      model == StrOr(call.model, "mistralai/mistral-large-2512")
  IN  CASE path = "custom" ->
             [base_url |-> StrOr(call.custom_base_url, settings.custom_llm_base_url),
              api_key |-> StrOr(call.api_key, settings.llm_api_key),
              model |-> model]
        [] path = "anthropic" ->
             [base_url |-> "anthropic",
              api_key |-> StrOr(call.api_key, settings.llm_api_key),
              model |-> model]
        [] OTHER ->
             [base_url |-> "openrouter",
              api_key |-> StrOr(call.api_key, settings.llm_api_key),
              model |-> model]

\* chat_completion up to the first iteration of with_retry's loop
ChatCompletion ==
  LET \* the ValueError a path raises before it builds its request
      PreconditionFails(path, resolved) ==
        \/ path = "custom" /\ ~TruthyStr(resolved.base_url)
        \/ path = "anthropic" /\ ~TruthyStr(resolved.api_key)
  IN  /\ pc = "chat_completion"
      /\ LET path == Route(settings.llm_provider, call.custom_base_url)
             resolved == Effective(path)
         IN  /\ route' = path
             /\ effective' = resolved
             /\ IF PreconditionFails(path, resolved)
                THEN /\ exc' = Exception("ValueError")
                     /\ pc' = Raised
                     /\ UNCHANGED attempt
                ELSE IF settings.llm_max_retries < 1
                THEN /\ exc' = Exception("RetryExhaustedError")
                     /\ pc' = Raised
                     /\ UNCHANGED attempt
                ELSE /\ attempt' = 1
                     /\ pc' = "retry"
                     /\ UNCHANGED exc
      /\ exc_cause' = NoException
      /\ UNCHANGED <<config_vars, request, request_id, generator, resource_vars,
                     call, last_exception, calls, retry_log, last_error, only_503,
                     completion, response, transform_vars>>

(***************************************************************************)
(* with_retry (utils/retry.py) around one path's _make_request.            *)
(***************************************************************************)
\* RetryConfig.retryable_status_codes
RetryableStatusCodes == {429, 500, 502, 503, 504}

\* httpx.RequestError: connection errors and timeouts
RequestErrors == {"ConnectError", "ReadTimeout"}

\* min(base_delay * exponential_base ** (attempt - 1), max_delay)
Delay_uncapped(n) == BaseDelay * ExponentialBase ^ (n - 1)

Delay(n) == Min(BaseDelay * ExponentialBase ^ (n - 1), MaxDelay)

\* the except clauses of with_retry: what the loop does with an exception
\* raised by attempt n of max_attempts
OnError_retryAll(e, n, max_attempts) ==
  IF e.type = "HTTPStatusError" \/ e.type \in RequestErrors
  THEN IF n = max_attempts THEN "break" ELSE "sleep"
  ELSE "propagate"

OnError_retryOther(e, n, max_attempts) ==
  IF e.type = "HTTPStatusError" /\ e.code \notin RetryableStatusCodes THEN "raise"
  ELSE IF n = max_attempts THEN "break"
  ELSE "sleep"

OnError(e, n, max_attempts) ==
  IF e.type = "HTTPStatusError"
  THEN IF e.code \notin RetryableStatusCodes THEN "raise"
       ELSE IF n = max_attempts THEN "break"
       ELSE "sleep"
  ELSE IF e.type \in RequestErrors
  THEN IF n = max_attempts THEN "break" ELSE "sleep"
  ELSE "propagate"

\* logger.warning("Retrying after ...", attempt, max_attempts, delay_seconds)
RetryWarning_nextAttempt(n, max_attempts, delay) ==
  [attempt |-> n + 1, max_attempts |-> max_attempts, delay_seconds |-> delay]

RetryWarning(n, max_attempts, delay) ==
  [attempt |-> n, max_attempts |-> max_attempts, delay_seconds |-> delay]

\* last_exception after an exception of attempt n
LastException_httpOnly(e, previous) ==
  IF e.type = "HTTPStatusError" THEN e ELSE previous

LastException(e, previous) ==
  IF e.type = "HTTPStatusError" \/ e.type \in RequestErrors THEN e
  ELSE previous

\* what an attempt ends with: a completion or an exception
Outcomes ==
  LET GoodJsonClassification ==
        [classificatiecollectie |-> "dict",
         cc_informatiecategorieen |->
           [kind |-> "list", items |-> <<[kind |-> "str", name |-> ADVIEZEN.name]>>],
         informatiecategorieen |-> AbsentList]

      LifecycleJsonDocs ==
        { JsonDoc("dict", NoJsonPublisher, GoodJsonTitle, GoodJsonClassification, c) :
            c \in { NoConfidence,
                    [NoConfidence EXCEPT !.kind = "other"],
                    [NoConfidence EXCEPT !.kind = "dict",
                                         !.overall = [kind |-> "num", value |-> 90]],
                    [NoConfidence EXCEPT !.kind = "dict",
                                         !.overall = [kind |-> "num", value |-> 150]],
                    [NoConfidence EXCEPT !.kind = "dict",
                                         !.overall = [kind |-> "null", value |-> 0]],
                    [NoConfidence EXCEPT !.kind = "dict",
                                         !.titel = [kind |-> "num", value |-> 50]],
                    [NoConfidence EXCEPT !.kind = "dict",
                                         !.overall = [kind |-> "num", value |-> 90],
                                         !.titel = [kind |-> "num", value |-> 150]],
                    [NoConfidence EXCEPT !.kind = "dict",
                                         !.overall = [kind |-> "num", value |-> 90],
                                         !.titel = [kind |-> "str", value |-> 0]] } }
          \cup { JsonDoc("list", NoJsonPublisher, GoodJsonTitle,
                         NoJsonClassification, NoConfidence),
                 JsonDoc("dict", NoJsonPublisher,
                         [titelcollectie |-> "dict", tc_officieleTitel |-> AbsentText,
                          tc_officiele_titel |-> Text("llm", 0),
                          officiele_titel |-> AbsentText],
                         GoodJsonClassification, NoConfidence) }

      \* the answers of the lifecycle's provider
      LifecycleXmlDocs ==
        { XmlDoc(TRUE, v, d, p, GoodXmlTitle,
                 [present |-> TRUE, has_list |-> TRUE,
                  informatiecategorieen |-> <<Str(ADVIEZEN.value)>>],
                 [present |-> FALSE, items |-> <<>>]) :
            v \in BOOLEAN, d \in {TRUE},
            p \in {GoodXmlOrg} }
          \cup { EmptyXmlDoc(TRUE, TRUE, FALSE),
                 XmlDoc(TRUE, TRUE, TRUE,
                        [present |-> TRUE, resource |-> GivenUri("invalid"),
                         label |-> "Gemeente LLM"],
                        GoodXmlTitle,
                        [present |-> FALSE, has_list |-> FALSE,
                         informatiecategorieen |-> <<>>],
                        [present |-> FALSE, items |-> <<>>]) }

      \* the text of choices[0].message.content: an XML answer, a JSON answer or
      \* text that is neither
      XmlContent(x) == [format |-> "xml", xml |-> x, json |-> IdleInput.json]

      JsonContent(d) ==
        [format |-> "json", xml |-> EmptyXmlDoc(FALSE, FALSE, FALSE), json |-> d]

      Contents ==
        { XmlContent(x) : x \in LifecycleXmlDocs }
          \cup { JsonContent(d) : d \in LifecycleJsonDocs }
          \cup { NoContent }

      \* the statuses raise_for_status() raises for
      StatusCodes == RetryableStatusCodes \cup {400, 401}

      \* what else an attempt raises: response.json() on a body that is no JSON,
      \* an error class of the SDK
      OtherErrors == {"JSONDecodeError", "SDKError"}
  IN  { [ok |-> TRUE, exc |-> NoException, n_choices |-> 1, content |-> c] :
          c \in Contents }
        \cup { [ok |-> TRUE, exc |-> NoException, n_choices |-> 0,
                content |-> NoContent] }
        \cup { [ok |-> FALSE, exc |-> HTTPStatusError(s), n_choices |-> 0,
                content |-> NoContent] : s \in StatusCodes }
        \cup { [ok |-> FALSE, exc |-> Exception(t), n_choices |-> 0,
                content |-> NoContent] : t \in RequestErrors \cup OtherErrors }

\* self._client after _openrouter_chat_completion chose its SDK client
\* (lines 220-232): a client built for the per-request key is a local, and
\* _get_client() caches the client built from settings.llm_api_key
SelfClient_perRequest(api_key, current) ==
  IF TruthyStr(api_key) THEN "request" ELSE "cached"

SelfClient(api_key, current) ==
  IF TruthyStr(api_key) THEN current ELSE "cached"

\* _make_request up to the request sent: the path acquires its HTTP client
\* (an httpx.AsyncClient, the cached SDK client, or an SDK client built for
\* the per-request key)
MakeRequest ==
  /\ pc = "retry"
  /\ calls' = calls + 1
  /\ IF route \in {"custom", "anthropic"}
     THEN /\ httpx_open' = httpx_open + 1
          /\ acquired' = acquired + 1
          /\ UNCHANGED <<sdk_client, sdk_open>>
     ELSE IF TruthyStr(call.api_key)
     THEN /\ sdk_client' = SelfClient(call.api_key, sdk_client)
          /\ sdk_open' = sdk_open + 1
          /\ acquired' = acquired + 1
          /\ UNCHANGED httpx_open
     ELSE /\ sdk_client' = SelfClient(call.api_key, sdk_client)
          /\ sdk_open' = IF sdk_client = "None" THEN sdk_open + 1 ELSE sdk_open
          /\ acquired' = IF sdk_client = "None" THEN acquired + 1 ELSE acquired
          /\ UNCHANGED httpx_open
  /\ pc' = "in_flight"
  /\ UNCHANGED <<config_vars, request, request_id, generator, route, call,
                 effective, attempt, last_exception, retry_log, last_error,
                 only_503, completion, exc, exc_cause, response, transform_vars>>

\* the attempt ends: the async with block closes the httpx client, and
\* with_retry returns the completion, sleeps, or raises
RequestOutcome ==
  LET Returned == IF entry = "chat_completion" THEN "cc_returned" ELSE "gen_parse"
  IN  /\ pc = "in_flight"
      /\ \E o \in Outcomes :
           LET step == IF o.ok THEN "return"
                       ELSE OnError(o.exc, attempt, settings.llm_max_retries)
               \* with_retry's locals end with its return
               last == IF o.ok THEN NoException
                       ELSE LastException(o.exc, last_exception)
           IN  /\ httpx_open' = IF route \in {"custom", "anthropic"}
                                THEN httpx_open - 1 ELSE httpx_open
               /\ last_error' = o.exc
               /\ only_503' = (only_503 /\ (o.ok \/ o.exc = HTTPStatusError(503)))
               /\ last_exception' = last
               /\ completion' = IF o.ok
                                THEN [attempt |-> attempt, n_choices |-> o.n_choices,
                                      content |-> o.content]
                                ELSE completion
               /\ retry_log' = IF step = "sleep"
                               THEN Append(retry_log,
                                           RetryWarning(attempt,
                                                        settings.llm_max_retries,
                                                        Delay(attempt)))
                               ELSE retry_log
               /\ exc' = CASE step = "break" -> Exception("RetryExhaustedError")
                           [] step \in {"raise", "propagate"} -> o.exc
                           [] OTHER -> exc
               /\ exc_cause' = IF step = "break" THEN last ELSE exc_cause
               /\ pc' = CASE step = "return" -> Returned
                          [] step = "sleep" -> "sleeping"
                          [] OTHER -> Raised
      /\ UNCHANGED <<config_vars, request, request_id, generator, sdk_client,
                     sdk_open, acquired, route, call, effective, attempt, calls,
                     response, transform_vars>>

\* asyncio.sleep(delay) is over: the next iteration of the loop
Wake ==
  /\ pc = "sleeping"
  /\ attempt' = attempt + 1
  /\ pc' = "retry"
  /\ UNCHANGED <<config_vars, request, request_id, generator, resource_vars,
                 route, call, effective, last_exception, calls, retry_log,
                 last_error, only_503, completion, exc, exc_cause, response,
                 transform_vars>>

(***************************************************************************)
(* generate after the provider call (lines 132-203) and the callers'       *)
(* finally blocks.                                                         *)
(***************************************************************************)
\* ConfidenceScores(overall=..., fields=...): overall is a float in [0, 1],
\* here in hundredths; None is no float
ConfidenceScores_unchecked(overall, fields) ==
  Ok([overall |-> overall.value, fields |-> fields])

ConfidenceScores(overall, fields) ==
  IF overall.kind # "num" \/ overall.value < 0 \/ overall.value > 100
  THEN Raise("ValidationError", "overall")
  ELSE Ok([overall |-> overall.value, fields |-> fields])

\* lines 135-148: the metadata and the confidence of the answer
ParseContent(output_mode, content, req, validate_xml, schema_loaded) ==
  LET Float(v) == [kind |-> "num", value |-> v]
      \* _extract_confidence(llm_output): raw_scores.get("overall", 0.7), a
      \* FieldConfidence for each other entry that is a number
      ExtractConfidence(d) ==
        LET raw_scores == d.confidence_scores
            overall == IF raw_scores.kind = "absent" \/ raw_scores.overall.kind = "absent"
                       THEN Float(DefaultOverallConfidence)
                       ELSE raw_scores.overall
            score == IF raw_scores.kind = "absent" THEN NoConfidence.titel
                     ELSE raw_scores.titel
        IN  IF raw_scores.kind = "other"
            THEN Raise("AttributeError", "confidence_scores")
            ELSE IF score.kind = "num" /\ (score.value < 0 \/ score.value > 100)
            THEN Raise("ValidationError", "confidence")
            ELSE IF d.informatiecategorieen.kind = "null"
            THEN Raise("TypeError", "informatiecategorieen")
            ELSE ConfidenceScores(
                   overall,
                   IF score.kind = "num"
                   THEN <<[field_name |-> "titel", confidence |-> score.value]>>
                   ELSE <<>>)
  IN  IF output_mode = "xml"
      THEN LET metadata == ParseXmlToDiwoo(
                             IF content.format = "xml" THEN content.xml
                             ELSE EmptyXmlDoc(FALSE, FALSE, FALSE),
                             validate_xml, schema_loaded)
           IN  IF metadata.exc # "none" THEN metadata
               ELSE Ok([metadata |-> metadata.value,
                        confidence |->
                          ConfidenceScores(Float(XmlOverallConfidence), <<>>).value])
      ELSE IF content.format # "json"
      THEN Raise("JSONDecodeError", "raw_content")
      ELSE LET metadata == TransformToDiwoo(content.json, req.publisher_hint)
               confidence == IF req.include_confidence
                             THEN ExtractConfidence(content.json)
                             ELSE ConfidenceScores(Float(DefaultOverallConfidence), <<>>)
           IN  IF metadata.exc # "none" THEN metadata
               ELSE IF confidence.exc # "none" THEN confidence
               ELSE Ok([metadata |-> metadata.value,
                        confidence |-> confidence.value])

\* MetadataGenerationResponse(success=True, request_id, suggestion)
SuccessResponse_withError(id, parsed) ==
  [returned |-> TRUE, success |-> TRUE, request_id |-> id,
   suggestion |-> [present |-> TRUE, metadata |-> parsed.metadata,
                   confidence |-> parsed.confidence],
   error |-> [present |-> TRUE, prefix |-> "", of |-> "None"]]

SuccessResponse(id, parsed) ==
  [returned |-> TRUE, success |-> TRUE, request_id |-> id,
   suggestion |-> [present |-> TRUE, metadata |-> parsed.metadata,
                   confidence |-> parsed.confidence],
   error |-> NoError]

\* MetadataGenerationResponse(success=False, request_id, error)
FailureResponse(id, prefix, e) ==
  [returned |-> TRUE, success |-> FALSE, request_id |-> id,
   suggestion |-> NoSuggestion,
   error |-> [present |-> TRUE, prefix |-> prefix, of |-> e.type]]

\* the except clauses of generate (lines 173-203): whether the exception is
\* caught and the prefix of the error message
ExceptClause_noCatchAll(e) ==
  CASE e.type = "JSONDecodeError" ->
         [caught |-> TRUE, prefix |-> "LLM returned invalid JSON: "]
    [] e.type \in {"XMLParseError", "XMLValidationError"} ->
         [caught |-> TRUE, prefix |-> "LLM returned invalid XML: "]
    [] e.type = "ValidationError" ->
         [caught |-> TRUE, prefix |-> "Generated metadata validation failed: "]
    [] OTHER -> [caught |-> FALSE, prefix |-> ""]

ExceptClause_xmlGeneric(e) ==
  CASE e.type = "JSONDecodeError" ->
         [caught |-> TRUE, prefix |-> "LLM returned invalid JSON: "]
    [] e.type = "ValidationError" ->
         [caught |-> TRUE, prefix |-> "Generated metadata validation failed: "]
    [] OTHER -> [caught |-> TRUE, prefix |-> ""]

ExceptClause(e) ==
  CASE e.type = "JSONDecodeError" ->
         [caught |-> TRUE, prefix |-> "LLM returned invalid JSON: "]
    [] e.type \in {"XMLParseError", "XMLValidationError"} ->
         [caught |-> TRUE, prefix |-> "LLM returned invalid XML: "]
    [] e.type = "ValidationError" ->
         [caught |-> TRUE, prefix |-> "Generated metadata validation failed: "]
    [] OTHER -> [caught |-> TRUE, prefix |-> ""]

\* generate, lines 132-171: choices[0], the transformer, the response
GenerateFinish ==
  /\ pc = "gen_parse"
  /\ IF completion.n_choices = 0
     THEN /\ exc' = Exception("IndexError")
          /\ pc' = "gen_except"
          /\ UNCHANGED response
     ELSE LET parsed == ParseContent(args.output_mode, completion.content,
                                     request, args.validate_xml,
                                     args.schema_loaded)
          IN  IF parsed.exc = "none"
              THEN /\ response' = SuccessResponse(request_id, parsed.value)
                   /\ pc' = "gen_returned"
                   /\ UNCHANGED exc
              ELSE /\ exc' = Exception(parsed.exc)
                   /\ pc' = "gen_except"
                   /\ UNCHANGED response
  /\ UNCHANGED <<config_vars, request, request_id, generator, resource_vars,
                 route, call, effective, retry_vars, completion, exc_cause,
                 transform_vars>>

\* generate, lines 173-203: the exception becomes a failure response
GenerateExcept ==
  /\ pc = "gen_except"
  /\ LET clause == ExceptClause(exc)
     IN  IF clause.caught
         THEN /\ response' = FailureResponse(request_id, clause.prefix, exc)
              /\ pc' = "gen_returned"
         ELSE /\ pc' = "gen_raised"
              /\ UNCHANGED response
  /\ UNCHANGED <<config_vars, request, request_id, generator, resource_vars,
                 route, call, effective, retry_vars, completion, exc,
                 exc_cause, transform_vars>>

\* the caller's finally: generator.close(), which closes the client it owns
GeneratorClose_closeInjected ==
  /\ pc \in {"gen_returned", "gen_raised"}
  /\ sdk_client' = IF generator.client THEN "None" ELSE sdk_client
  /\ generator' = [generator EXCEPT !.closed = TRUE]
  /\ pc' = IF pc = "gen_returned" THEN "handler_returned" ELSE "handler_raised"
  /\ UNCHANGED <<config_vars, request, request_id, sdk_open,
                 httpx_open, acquired, route, call, effective, retry_vars,
                 completion, exc, exc_cause, response, transform_vars>>

GeneratorClose ==
  /\ pc \in {"gen_returned", "gen_raised"}
  \* OpenRouterClient.close() drops the reference to the SDK client
  /\ sdk_client' = IF generator.owns_client /\ generator.client
                   THEN "None" ELSE sdk_client
  /\ generator' = [generator EXCEPT !.closed = TRUE]
  /\ pc' = IF pc = "gen_returned" THEN "handler_returned" ELSE "handler_raised"
  /\ UNCHANGED <<config_vars, request, request_id, sdk_open,
                 httpx_open, acquired, route, call, effective, retry_vars,
                 completion, exc, exc_cause, response, transform_vars>>

\* the caller of generate calls generator.close() once more
CloseAgain ==
  /\ entry = "generate"
  /\ pc \in {"handler_returned", "handler_raised"}
  /\ sdk_client' = IF generator.owns_client /\ generator.client
                   THEN "None" ELSE sdk_client
  /\ pc' = "closed_again"
  /\ UNCHANGED <<config_vars, request, request_id, generator, sdk_open,
                 httpx_open, acquired, route, call, effective, retry_vars,
                 completion, exc, exc_cause, response, transform_vars>>

\* the caller of generate calls generate again on the closed generator, with
\* the same request; what was observed of the previous call is gone
LaterGenerate ==
  /\ entry = "generate"
  /\ pc \in {"handler_returned", "handler_raised", "closed_again"}
  /\ generator.closed /\ ~generator.again
  /\ generator' = [generator EXCEPT !.again = TRUE]
  /\ route' = "none"
  /\ call' = [api_key |-> "None", custom_base_url |-> "None", model |-> "None"]
  /\ effective' = [base_url |-> "", api_key |-> "", model |-> ""]
  /\ attempt' = 0
  /\ last_exception' = NoException
  /\ calls' = 0
  /\ retry_log' = <<>>
  /\ last_error' = NoException
  /\ only_503' = TRUE
  /\ completion' = [attempt |-> 0, n_choices |-> 0, content |-> NoContent]
  /\ exc' = NoException
  /\ exc_cause' = NoException
  /\ response' = [returned |-> FALSE, success |-> FALSE, request_id |-> "",
                   suggestion |-> NoSuggestion, error |-> NoError]
  /\ pc' = "generate"
  /\ UNCHANGED <<config_vars, request, request_id, resource_vars,
                 transform_vars>>

\* get_openrouter_client's finally: client.close()
ClientClose ==
  /\ pc \in {"cc_returned", "cc_raised"}
  /\ sdk_client' = "None"
  /\ pc' = "closed"
  /\ UNCHANGED <<config_vars, request, request_id, generator, sdk_open,
                 httpx_open, acquired, route, call, effective, retry_vars,
                 completion, exc, exc_cause, response, transform_vars>>

\* the holder of an OpenRouterClient calls it again, after a call or after
\* close(), with no argument but the messages: chat_completion(messages).
\* with_retry's locals and what was observed of the previous call are gone
LaterChatCompletion ==
  /\ entry = "chat_completion"
  /\ pc \in {"cc_returned", "cc_raised", "closed"}
  /\ call # [api_key |-> "None", custom_base_url |-> "None", model |-> "None"]
  /\ call' = [api_key |-> "None", custom_base_url |-> "None", model |-> "None"]
  /\ route' = "none"
  /\ effective' = [base_url |-> "", api_key |-> "", model |-> ""]
  /\ attempt' = 0
  /\ last_exception' = NoException
  /\ calls' = 0
  /\ retry_log' = <<>>
  /\ last_error' = NoException
  /\ only_503' = TRUE
  /\ completion' = [attempt |-> 0, n_choices |-> 0, content |-> NoContent]
  /\ exc' = NoException
  /\ exc_cause' = NoException
  /\ pc' = "chat_completion"
  /\ UNCHANGED <<config_vars, request, request_id, generator, resource_vars,
                 response, transform_vars>>

Next ==
  \/ GenerateMetadata
  \/ GenerateMetadataFromFile
  \/ ScriptGenerate
  \/ DirectChatCompletion
  \/ GenerateBegin
  \/ ChatCompletion
  \/ MakeRequest
  \/ RequestOutcome
  \/ Wake
  \/ GenerateFinish
  \/ GenerateExcept
  \/ GeneratorClose
  \/ ClientClose
  \/ LaterChatCompletion
  \/ CloseAgain
  \/ LaterGenerate

Spec == Init /\ [][Next]_vars

(***************************************************************************)
(* C2: generate never raises to its caller: whatever fails after the       *)
(* request id is assigned (client, prompt, provider call, retries          *)
(* exhausted, no choices, parsing, validation, confidence), generate       *)
(* returns a response with success = false and an error message.           *)
(***************************************************************************)
C2_GenerateNeverRaises ==
  /\ pc # "gen_raised"
  /\ (pc = "handler_raised" => request_id = "")
  /\ (pc \in {"gen_returned", "handler_returned"} =>
        /\ response.returned
        /\ (exc # NoException =>
              /\ ~response.success
              /\ response.error.present
              /\ response.error.of = exc.type))

\* the retries were exhausted and generate returned a failure response
C2_Witness ==
  /\ pc = "gen_returned"
  /\ exc.type = "RetryExhaustedError"
  /\ calls = MaxAttempts
  /\ response.returned
  /\ ~response.success

(***************************************************************************)
(* C3: a response carries exactly one of suggestion and error: success     *)
(* with a suggestion and no error, or failure with an error and no         *)
(* suggestion; either way it carries the request id assigned at the start. *)
(***************************************************************************)
C3_SuggestionXorError ==
  response.returned =>
    /\ response.suggestion.present # response.error.present
    /\ (response.success => response.suggestion.present /\ ~response.error.present)
    /\ (~response.success => response.error.present /\ ~response.suggestion.present)
    /\ request_id \in RequestIds
    /\ response.request_id = request_id

\* a successful response with its request id
C3_Witness ==
  /\ response.returned
  /\ response.success
  /\ response.suggestion.present
  /\ response.request_id = "uuid-b"
  /\ pc = "handler_returned"

(***************************************************************************)
(* C4: when every attempt fails with a retryable condition (HTTP 429, 500, *)
(* 502, 503, 504, a connection error, a timeout), with_retry invokes the   *)
(* call exactly max_attempts times and then raises RetryExhaustedError     *)
(* whose cause is the error of the last attempt.                           *)
(***************************************************************************)
C4_IsRetryable(e) ==
  \/ e.type = "HTTPStatusError" /\ e.code \in {429, 500, 502, 503, 504}
  \/ e.type \in {"ConnectError", "ReadTimeout"}

C4_RetryExhausted ==
  /\ exc.type = "RetryExhaustedError" =>
       /\ calls = settings.llm_max_retries
       /\ exc_cause = last_error
       /\ pc \notin {"retry", "in_flight", "sleeping"}
  /\ (C4_IsRetryable(last_error) /\ pc \notin {"retry", "in_flight", "sleeping"}) =>
       /\ exc.type = "RetryExhaustedError"
       /\ calls = settings.llm_max_retries
       /\ exc_cause = last_error

\* the budget was used up and the last attempt timed out
C4_Witness ==
  /\ exc.type = "RetryExhaustedError"
  /\ settings.llm_max_retries = MaxAttempts
  /\ calls = MaxAttempts
  /\ last_error = Exception("ReadTimeout")
  /\ exc_cause = Exception("ReadTimeout")

(***************************************************************************)
(* C5: an attempt that fails with a non-retryable HTTP status (400, 401)   *)
(* is followed by no further attempt and no backoff sleep; the HTTP error  *)
(* itself, not RetryExhaustedError, propagates.                            *)
(***************************************************************************)
C5_NonRetryablePropagates ==
  (last_error.type = "HTTPStatusError"
     /\ last_error.code \notin {429, 500, 502, 503, 504}) =>
    /\ pc \notin {"retry", "in_flight", "sleeping"}
    /\ exc = last_error
    /\ exc_cause = NoException
    /\ calls = Len(retry_log) + 1

\* HTTP 401 on the second attempt has reached generate's caller as a failure
C5_Witness ==
  /\ last_error = HTTPStatusError(401)
  /\ calls = 2
  /\ settings.llm_max_retries = MaxAttempts
  /\ pc = "handler_returned"
  /\ response.error.of = "HTTPStatusError"

(***************************************************************************)
(* The scenario of C6: a budget of three attempts, HTTP 503 on the first   *)
(* two, an answer on the third that the transformer accepts; generate has  *)
(* returned.                                                               *)
(***************************************************************************)
C6_Scenario ==
  /\ entry \in GenerationEntries
  /\ pc \in {"gen_returned", "handler_returned"}
  /\ settings.llm_max_retries = 3
  /\ only_503
  /\ completion.attempt = 3
  /\ completion.n_choices = 1
  /\ ParseContent(args.output_mode, completion.content, request,
                  args.validate_xml, args.schema_loaded).exc = "none"

\* the highest attempt number an event of the call records
C6_RecordedAttemptCount ==
  IF retry_log = <<>> THEN 0 ELSE retry_log[Len(retry_log)].attempt

C7_BackoffDelays ==
  /\ \A k \in 1..Len(retry_log) :
       /\ retry_log[k].attempt = k
       /\ retry_log[k].delay_seconds = Min(BaseDelay * 2 ^ (k - 1), MaxDelay)
       /\ (k = 1 => retry_log[k].delay_seconds = BaseDelay)
       /\ (k > 1 =>
             /\ retry_log[k].delay_seconds =
                  Min(2 * retry_log[k - 1].delay_seconds, MaxDelay)
             /\ retry_log[k].delay_seconds >= retry_log[k - 1].delay_seconds)
  /\ Len(retry_log) <= IF settings.llm_max_retries >= 1
                       THEN settings.llm_max_retries - 1 ELSE 0
  /\ (pc = "sleeping" => attempt < settings.llm_max_retries)

\* every attempt but the last was followed by a sleep, the last ones capped
C7_Witness ==
  /\ Len(retry_log) = MaxAttempts - 1
  /\ retry_log[1].delay_seconds = BaseDelay
  /\ retry_log[Len(retry_log)].delay_seconds = MaxDelay
  /\ retry_log[Len(retry_log) - 1].delay_seconds < MaxDelay
  /\ calls = MaxAttempts
  /\ exc.type = "RetryExhaustedError"

(***************************************************************************)
(* C8: chat_completion dispatches to one of three paths in a fixed order:  *)
(* a per-request endpoint override selects the OpenAI-compatible path,     *)
(* whatever the configured provider; otherwise the configured provider     *)
(* selects its path (anthropic the Messages path, custom the               *)
(* OpenAI-compatible one); otherwise OpenRouter.                           *)
(***************************************************************************)
C8_Dispatch ==
  route # "none" =>
    /\ route \in {"custom", "anthropic", "openrouter"}
    /\ (call.custom_base_url # "None" => route = "custom")
    /\ (call.custom_base_url = "None" /\ settings.llm_provider = "anthropic"
          => route = "anthropic")
    /\ (call.custom_base_url = "None" /\ settings.llm_provider = "custom"
          => route = "custom")
    /\ (call.custom_base_url = "None" /\ settings.llm_provider = "openrouter"
          => route = "openrouter")
    /\ (route = "openrouter" => httpx_open = 0)
    /\ (route # "openrouter" => sdk_open = 0)

\* an endpoint override with the provider configured as anthropic
C8_Witness ==
  /\ route = "custom"
  /\ settings.llm_provider = "anthropic"
  /\ call.custom_base_url = "http://request-llm"
  /\ effective.base_url = "http://request-llm"
  /\ pc = "in_flight"
  /\ httpx_open = 1

(***************************************************************************)
(* C9: a generation request carries a per-request api_key and              *)
(* custom_base_url and generate passes both to the provider call, so a     *)
(* request with an endpoint override is served by the OpenAI-compatible    *)
(* path with that credential.                                              *)
(***************************************************************************)
C9_OverridesReachProvider ==
  (entry \in GenerationEntries /\ route # "none") =>
    /\ call.api_key = args.api_key
    /\ call.custom_base_url = args.custom_base_url
    /\ (args.custom_base_url # "None" =>
          /\ route = "custom"
          /\ effective.base_url = args.custom_base_url)
    /\ (args.api_key # "None" => effective.api_key = args.api_key)

(***************************************************************************)
(* C10: every provider HTTP client acquired while a generation request is  *)
(* served (the cached SDK client of the generator's client, the httpx      *)
(* client of an attempt, the SDK client built for a per-request key) has   *)
(* been released when the request handler returns or raises.               *)
(***************************************************************************)
C10_ClientsReleased ==
  (entry \in GenerationEntries /\ pc \in {"handler_returned", "handler_raised"}) =>
    /\ httpx_open = 0
    /\ sdk_open = 0

(***************************************************************************)
(* C11: for a JSON output in the old flat layout (top-level                *)
(* officiele_titel and informatiecategorieen, no titelcollectie and no     *)
(* classificatiecollectie) and no publisher hint, the JSON transformer     *)
(* returns a record whose title and categories are read from the flat      *)
(* keys (for the one category ADVIEZEN: exactly ADVIEZEN), whose publisher *)
(* label is the unknown-organisation placeholder, and which has exactly    *)
(* one handling event.                                                     *)
(***************************************************************************)
C11_FlatInput ==
  /\ t_pc = "done"
  /\ t_input.mode = "json"
  /\ t_input.json.root = "dict"
  /\ t_input.json.publisher.kind = "absent"
  /\ ~t_input.hint.present
  /\ t_input.json.titelcollectie = "absent"
  /\ t_input.json.classificatiecollectie = "absent"
  /\ Truthy(t_input.json.officiele_titel)
  /\ t_input.json.informatiecategorieen =
       [kind |-> "list", items |-> <<[kind |-> "str", name |-> ADVIEZEN.name]>>]

C11_FlatLayoutRead ==
  C11_FlatInput =>
    /\ t_result.exc = "none"
    /\ t_result.value.officiele_titel = t_input.json.officiele_titel
    /\ t_result.value.informatiecategorieen = <<ADVIEZEN>>
    /\ t_result.value.publisher.label = "Onbekende organisatie"
    /\ Len(t_result.value.documenthandelingen) = 1

(***************************************************************************)
(* C12: the categories of the JSON transformer's record are exactly the    *)
(* proposed category names that resolve in the taxonomy after              *)
(* normalisation of case and spaces, in the proposed order; names that do  *)
(* not resolve are dropped and the transformation does not fail; when none *)
(* resolves (an empty list included) the record has exactly one category,  *)
(* the default one.                                                        *)
(***************************************************************************)
\* the list of entries the transformer reads its categories from
C12_Proposed == RawCategories(t_input.json).items

\* the name of entry i, "" when the entry has none
C12_Name(i) ==
  IF C12_Proposed[i].kind = "str" THEN C12_Proposed[i].name ELSE <<>>

\* the entries whose normalised name is a member of the taxonomy
C12_Resolving ==
  { i \in 1..Len(C12_Proposed) :
      \E m \in 1..Len(InformatieCategorie) :
        InformatieCategorie[m].name = NormaliseName(C12_Name(i)) }

\* the j-th resolving entry
C12_Nth(j) ==
  CHOOSE i \in C12_Resolving :
    Cardinality({ k \in C12_Resolving : k < i }) = j - 1

\* an object was parsed whose entries are objects with a name or without,
\* and whose title and other keys are well formed
C12_Input ==
  /\ t_pc = "done"
  /\ t_input.mode = "json"
  /\ t_input.json.root = "dict"
  /\ RawCategories(t_input.json).kind \in {"absent", "list"}
  /\ \A i \in 1..Len(C12_Proposed) : C12_Proposed[i].kind \in {"str", "missing"}
  /\ t_input.json.tc_officieleTitel = GoodJsonTitle.tc_officieleTitel
  /\ t_input.json.taal.kind # "null"
  /\ RawSoorten(t_input.json).items = <<>>
  /\ t_input.json.documentrelaties.items = <<>>

C12_CategoriesResolved ==
  C12_Input =>
    /\ t_result.exc = "none"
    /\ LET cats == t_result.value.informatiecategorieen
       IN  IF C12_Resolving = {}
           THEN cats = <<OVERIGE_BESLUITEN_AS>>
           ELSE /\ Len(cats) = Cardinality(C12_Resolving)
                /\ \A j \in 1..Len(cats) :
                     cats[j].name = NormaliseName(C12_Name(C12_Nth(j)))

\* an unknown name is dropped and a lower-case name with a space resolves
C12_Witness ==
  /\ C12_Input
  /\ Len(C12_Proposed) = 2
  /\ C12_Resolving = {2}
  /\ C12_Name(2) # NormaliseName(C12_Name(2))
  /\ t_result.value.informatiecategorieen = <<InformatieCategorie[14]>>

(***************************************************************************)
(* C13: for an LLM output that parses structurally (a JSON object, or      *)
(* well-formed XML with the DiWoo element) the transformer returns a       *)
(* record: a publisher or official title that is missing or empty is       *)
(* replaced by its placeholder, and an official title of more than 2000    *)
(* characters is cut to its first 2000.                                    *)
(***************************************************************************)
\* the output parsed structurally; schema validation is not part of the case
C13_Structural ==
  /\ t_pc = "done"
  /\ \/ t_input.mode = "json" /\ t_input.json.root = "dict"
     \/ /\ t_input.mode = "xml"
        /\ t_input.xml.syntax
        /\ t_input.xml.has_diwoo
        /\ ~t_input.validate

\* the official title the output holds under the keys of its layout, if any
C13_JsonTitles ==
  IF t_input.json.titelcollectie = "dict"
  THEN {t_input.json.tc_officieleTitel, t_input.json.tc_officiele_titel}
  ELSE {t_input.json.officiele_titel}

\* the output has no official title, or an empty one
C13_TitleMissingOrEmpty ==
  IF t_input.mode = "json"
  THEN \A t \in C13_JsonTitles : t.kind = "absent" \/ (t.kind = "str" /\ t.len = 0)
  ELSE ~Truthy(t_input.xml.titelcollectie.officieleTitel)

C13_AlwaysRecord ==
  C13_Structural =>
    /\ t_result.exc = "none"
    /\ t_result.value.officiele_titel.len <= MaxTitleLen
    /\ C13_TitleMissingOrEmpty => t_result.value.officiele_titel = DefaultTitle

(***************************************************************************)
(* C14: malformed XML from the LLM makes parse_xml_to_diwoo fail with the  *)
(* invalid-XML parse error, no record is produced, and generate returns a  *)
(* response with success=false whose error message contains 'invalid XML'. *)
(***************************************************************************)
\* generate ran in XML mode on an answer that is not well-formed XML
C14_MalformedXml ==
  /\ pc \in {"gen_except", "gen_returned", "gen_raised",
              "handler_returned", "handler_raised"}
  /\ args.output_mode = "xml"
  /\ completion.n_choices > 0
  /\ \/ completion.content.format # "xml"
     \/ ~completion.content.xml.syntax

C14_InvalidXmlSurfaced ==
  C14_MalformedXml =>
    /\ exc = Exception("XMLParseError")
    /\ pc \notin {"gen_raised", "handler_raised"}
    /\ (pc \in {"gen_returned", "handler_returned"} =>
          /\ response.returned
          /\ ~response.success
          /\ ~response.suggestion.present
          /\ response.error.present
          /\ response.error.prefix = "LLM returned invalid XML: "
          /\ response.error.of = "XMLParseError")

\* the failure response for a malformed answer was returned
C14_Witness ==
  /\ C14_MalformedXml
  /\ pc = "gen_returned"
  /\ ~response.success
  /\ response.error.prefix = "LLM returned invalid XML: "

(***************************************************************************)
(* C15: when parse_xml_to_diwoo is called with schema validation           *)
(* requested, a well-formed document that does not conform to the schema   *)
(* is never returned as a record: the call fails with XMLValidationError,  *)
(* a type other than the XMLParseError of a syntax error, and validation   *)
(* runs before any field is extracted.                                     *)
(***************************************************************************)
\* validation was requested for a well-formed, non-conforming document
C15_NonConforming ==
  /\ t_pc = "done"
  /\ t_input.mode = "xml"
  /\ t_input.validate
  /\ t_input.xml.syntax
  /\ ~t_input.xml.schema_valid

\* the claim as stated
C15_AsStated ==
  C15_NonConforming =>
    /\ t_result.exc = "XMLValidationError"
    /\ t_result.field = "schema"

\* what holds: the document is rejected when the schema could be loaded;
\* when it could not, no validation error is raised and the document is
\* read as it is without validation
C15_RejectedWhenSchemaLoaded ==
  C15_NonConforming =>
    IF t_input.schema_loaded
    THEN /\ t_result.exc = "XMLValidationError"
         /\ t_result.field = "schema"
    ELSE /\ t_result.exc # "XMLValidationError"
         /\ (t_input.xml = EmptyXmlDoc(TRUE, FALSE, TRUE) =>
               t_result.exc = "none")
         /\ (~t_input.xml.has_diwoo => t_result.exc = "XMLParseError")

\* a non-conforming document without the DiWoo element and one with a
\* publisher that is no URL are rejected by validation, not by extraction
C15_Witness ==
  /\ C15_NonConforming
  /\ t_input.schema_loaded
  /\ \/ ~t_input.xml.has_diwoo
     \/ t_input.xml.publisher.resource = GivenUri("invalid")
  /\ t_result.exc = "XMLValidationError"

(***************************************************************************)
(* C16: in both transformers a taxonomy value that is not in its taxonomy  *)
(* never makes the transformation fail and yields the taxonomy's fallback: *)
(* an unknown document type is dropped, an unknown handling type becomes   *)
(* REGISTRATIE, an unknown or missing language becomes NL, an unknown      *)
(* relation type becomes HEEFT_BIJLAGE.                                    *)
(***************************************************************************)
\* an output whose required parts are well formed and which differs from
\* such an output in its taxonomy values only
C16_Input ==
  /\ t_pc = "done"
  /\ \/ /\ t_input.mode = "json"
        /\ t_input.json = [GoodJsonDoc EXCEPT
                             !.taal = t_input.json.taal,
                             !.cc_documentsoorten = t_input.json.cc_documentsoorten,
                             !.documentrelaties = t_input.json.documentrelaties]
     \/ /\ t_input.mode = "xml"
        /\ t_input.xml = [GoodXmlDoc EXCEPT
                            !.language = t_input.xml.language,
                            !.documentsoorten = t_input.xml.documentsoorten,
                            !.documentrelaties = t_input.xml.documentrelaties,
                            !.documenthandelingen = t_input.xml.documenthandelingen]
        /\ \A i \in 1..Len(t_input.xml.documenthandelingen.items) :
             t_input.xml.documenthandelingen.items[i].wasAssociatedWith.resource
               # GivenUri("invalid")

\* the language of the output is no member of the language taxonomy
C16_LanguageUnknownOrMissing ==
  IF t_input.mode = "json"
  THEN \/ t_input.json.taal.kind # "str"
       \/ \A i \in 1..Len(Taal) : Taal[i].name # Upper(t_input.json.taal.chars)
  ELSE \/ ~t_input.xml.language.present
       \/ t_input.xml.language.resource.kind = "none"
       \/ \A i \in 1..Len(Taal) :
            Taal[i].value # t_input.xml.language.resource.chars

C16_TaxonomyFallbacks ==
  C16_Input =>
    /\ t_result.exc = "none"
    /\ (C16_LanguageUnknownOrMissing => t_result.value.language = TaalMeta(NL))
    /\ \A i \in 1..Len(t_result.value.documentsoorten.items) :
         \E m \in 1..Len(DocumentSoort) :
           t_result.value.documentsoorten.items[i] = DocumentSoort[m]
    /\ \A i \in 1..Len(t_result.value.documenthandelingen) :
         \E m \in 1..Len(SoortHandeling) :
           t_result.value.documenthandelingen[i].soort_handeling = SoortHandeling[m]
    /\ \A i \in 1..Len(t_result.value.documentrelaties.items) :
         \E m \in 1..Len(DocumentRelatie) :
           t_result.value.documentrelaties.items[i].role = DocumentRelatie[m]

(***************************************************************************)
(* C17: in both transformers a creation date or a bound of the validity    *)
(* window that is absent or cannot be parsed as an ISO date or datetime is *)
(* left null and the transformation still returns a record; a validity     *)
(* window of which neither bound is usable is omitted as a whole.          *)
(***************************************************************************)
\* an output whose required parts are well formed and which differs from
\* such an output in its dates only
C17_Input ==
  /\ t_pc = "done"
  /\ \/ /\ t_input.mode = "json"
        /\ t_input.json = [GoodJsonDoc EXCEPT
                             !.creatiedatum = t_input.json.creatiedatum,
                             !.geldigheid = t_input.json.geldigheid]
     \/ /\ t_input.mode = "xml"
        /\ t_input.xml = [GoodXmlDoc EXCEPT
                            !.creatiedatum = t_input.xml.creatiedatum,
                            !.geldigheid = t_input.xml.geldigheid]

\* the dates as the output holds them
C17_RawCreatiedatum ==
  IF t_input.mode = "json" THEN t_input.json.creatiedatum
  ELSE t_input.xml.creatiedatum
C17_RawBegindatum ==
  IF t_input.mode = "json" THEN t_input.json.geldigheid.begindatum
  ELSE t_input.xml.geldigheid.begindatum
C17_RawEinddatum ==
  IF t_input.mode = "json" THEN t_input.json.geldigheid.einddatum
  ELSE t_input.xml.geldigheid.einddatum

\* absent, null, empty, or not starting with a calendar date
C17_Unusable(raw) == raw.kind # "str" \/ raw.date \notin {"2024-01-15", "2025-12-31"}

C18_Section == t_result.value.document_text

C18_Truncation ==
  (t_pc = "done" /\ t_input.mode = "prompt") =>
    LET text == t_input.document_text
        n == t_input.max_text_length
    IN  IF Len(text) > n
        THEN /\ Len(C18_Section) = n + 1
             /\ \A i \in 1..n : C18_Section[i] = text[i]
             /\ C18_Section[n + 1] = TruncationMarker
             /\ C18_Section # text
             /\ \A i \in 1..Len(C18_Section) - Len(text) + 1 :
                  SubSeq(C18_Section, i, i + Len(text) - 1) # text
        ELSE /\ C18_Section = text
             /\ \A i \in 1..Len(C18_Section) : C18_Section[i] # TruncationMarker

\* a text one character longer than the limit, and one of exactly the limit
C18_Witness ==
  /\ t_pc = "done"
  /\ t_input.mode = "prompt"
  /\ t_input.max_text_length = MaxTextLen - 1
  /\ Len(t_input.document_text) = MaxTextLen
  /\ C18_Section = SubSeq(t_input.document_text, 1, MaxTextLen - 1)
                     \o <<TruncationMarker>>

(***************************************************************************)
(* C19: for every record a transformer can return, serialising it with     *)
(* to_dict (alias names, nulls omitted) and validating the result again as *)
(* a DiWooMetadata succeeds and yields a record equal to the original, so  *)
(* that serialise-then-validate is idempotent.                             *)
(***************************************************************************)
C19_RoundTrip ==
  t_pc = "validated" =>
    /\ t_result.exc = "none"
    /\ t_result.value = t_result.original
    /\ ModelValidate(ToDict(t_result.value)) = Ok(t_result.value)

\* a record with a UTC end of validity, no start, and no creation date
C19_Witness ==
  /\ t_pc = "validated"
  /\ t_input.mode = "xml"
  /\ t_result.original.geldigheid =
       Geldigheid(NoDate, DateTime("2025-12-31", "T10:30:00", "utc"))
  /\ ~t_result.original.creatiedatum.present
  /\ ~Has(ToDict(t_result.original), "creatiedatum")
  /\ t_result.value = t_result.original
\* C20: the category taxonomy has exactly 17 entries with pairwise distinct
\* codes, each with a label and an article reference, in legal-article order
\* 3.3.1a .. 3.3.2l; for every entry of every taxonomy the URI is the fixed
\* base followed by the code, and _extract_category_code of that URI returns
\* the same code, so that code and URI determine each other.
C20_Articles ==
  << "3.3.1a", "3.3.1b", "3.3.1c", "3.3.1d", "3.3.1e",
     "3.3.2a", "3.3.2b", "3.3.2c", "3.3.2d", "3.3.2e", "3.3.2f",
     "3.3.2g", "3.3.2h", "3.3.2i", "3.3.2j", "3.3.2k", "3.3.2l" >>

C20_Member == Taxonomies[t_input.taxonomy][t_input.index]

C20_CategoryTable ==
  /\ Len(InformatieCategorie) = 17
  /\ \A i, j \in 1..Len(InformatieCategorie) :
        InformatieCategorie[i].value = InformatieCategorie[j].value => i = j
  /\ DOMAIN INFORMATIECATEGORIE_LABELS = DOMAIN InformatieCategorie
  /\ \A i \in DOMAIN InformatieCategorie : INFORMATIECATEGORIE_LABELS[i] # ""
  /\ INFORMATIECATEGORIE_ARTIKELEN = C20_Articles

C20_CodeAndUri ==
  (t_pc = "done" /\ t_input.mode = "taxonomy") =>
    LET taxonomy == Taxonomies[t_input.taxonomy]
        uri == TooiUri(C20_Member)
    IN  /\ C20_CategoryTable
        /\ Len(uri) = Len(TooiBase) + Len(C20_Member.value)
        /\ SubSeq(uri, 1, Len(TooiBase)) = TooiBase
        /\ SubSeq(uri, Len(TooiBase) + 1, Len(uri)) = C20_Member.value
        /\ t_result = Ok(Str(C20_Member.value))
        /\ \A i \in DOMAIN taxonomy :
              TooiUri(taxonomy[i]) = uri <=> taxonomy[i].value = C20_Member.value
        /\ \A i \in DOMAIN taxonomy :
              taxonomy[i].value = C20_Member.value => i = t_input.index

C20_Witness ==
  /\ t_pc = "done"
  /\ t_input.mode = "taxonomy"
  /\ t_input.taxonomy = "DocumentRelatie"
  /\ C20_Member = IS_BIJLAGE_VAN
  /\ t_result = Ok(Str(IS_BIJLAGE_VAN.value))

(***************************************************************************)
(* C21: on the Anthropic path the payload never contains a message with    *)
(* role system: the content of a system message is sent as the top-level   *)
(* system field, and all other messages are sent in their original order   *)
(* as role/content pairs.                                                  *)
(***************************************************************************)
C21_Others ==
  SelectSeq(t_input.messages, LAMBDA m : m.role # "system")

C21_SystemExtracted ==
  (t_pc = "done" /\ t_input.mode = "messages") =>
    LET payload == t_result.value
    IN  /\ \A i \in 1..Len(payload.messages) : payload.messages[i].role # "system"
        /\ payload.messages = C21_Others
        /\ \A i \in 1..Len(t_input.messages) :
              t_input.messages[i].role = "system" =>
                /\ payload.system.present
                /\ payload.system.text = t_input.messages[i].content

(***************************************************************************)
(* C22: in XML mode the confidence of the response is always the fixed     *)
(* placeholder (one overall score, no per-field scores) whatever the LLM   *)
(* returned; in JSON mode the overall score is the LLM's                   *)
(* confidence_scores.overall, or 0.7 when that is absent or when the       *)
(* request disables confidence; every confidence score of a successful     *)
(* response lies in [0, 1].                                                *)
(***************************************************************************)
C22_Success == response.returned /\ response.success

C22_Raw == completion.content.json.confidence_scores

C22_Confidence ==
  C22_Success =>
    LET confidence == response.suggestion.confidence
    IN  /\ args.output_mode = "xml" =>
              confidence = [overall |-> XmlOverallConfidence, fields |-> <<>>]
        /\ args.output_mode = "json" =>
              confidence.overall =
                IF request.include_confidence /\ C22_Raw.kind = "dict"
                   /\ C22_Raw.overall.kind # "absent"
                THEN C22_Raw.overall.value
                ELSE DefaultOverallConfidence
        /\ confidence.overall \in 0..100
        /\ \A i \in 1..Len(confidence.fields) :
              confidence.fields[i].confidence \in 0..100

\* a JSON answer with a per-field score and no overall score, confidence
\* requested
C22_Witness ==
  /\ C22_Success
  /\ args.output_mode = "json"
  /\ request.include_confidence
  /\ C22_Raw.kind = "dict"
  /\ C22_Raw.overall.kind = "absent"
  /\ response.suggestion.confidence.overall = DefaultOverallConfidence
  /\ Len(response.suggestion.confidence.fields) = 1

(***************************************************************************)
(* C23: get_document requests the metadata before the content and requests *)
(* the content only if the metadata request succeeded; when no base URL is *)
(* configured each fetch fails with PublicatiebankNotConfiguredError       *)
(* before any request is sent; a 404 from either request yields            *)
(* DocumentNotFoundError, and a 409 from the content request yields        *)
(* DocumentDownloadError ("not yet completed").                            *)
(***************************************************************************)
C23_MetadataUrl == "/api/v2/documenten/{uuid}"

C23_DownloadUrl == "/api/v2/documenten/{uuid}/download"

C23_LastResponse == t_result.responses[Len(t_result.responses)]

C23_GetDocument ==
  t_input.mode = "publicatiebank" =>
    /\ t_input.method = "get_document" =>
         /\ t_result.requests \in
              {<<>>, <<C23_MetadataUrl>>, <<C23_MetadataUrl, C23_DownloadUrl>>}
         /\ Len(t_result.requests) = 2 =>
              /\ t_result.responses[1].status_code = 200
              /\ t_result.metadata # "None"
    /\ t_input.base_url = "" =>
         /\ t_result.requests = <<>>
         /\ t_pc # "input" =>
              /\ t_pc = "pb_raised"
              /\ t_result.exc = "PublicatiebankNotConfiguredError"
    /\ (t_pc = "pb_raised" /\ t_result.responses # <<>>
          /\ C23_LastResponse.kind = "response") =>
         /\ C23_LastResponse.status_code = 404 =>
              t_result.exc = "DocumentNotFoundError"
         /\ (C23_LastResponse.status_code = 409
               /\ t_result.requests[Len(t_result.requests)] = C23_DownloadUrl) =>
              /\ t_result.exc = "DocumentDownloadError"
              /\ t_result.message = "upload is not yet completed"
    /\ (t_pc \in {"pb_returned", "pb_download"}) => C23_LastResponse.status_code = 200

\* get_document: the metadata arrived, the download answered 409
C23_Witness ==
  /\ t_input.mode = "publicatiebank"
  /\ t_input.method = "get_document"
  /\ t_pc = "pb_raised"
  /\ t_result.requests = <<C23_MetadataUrl, C23_DownloadUrl>>
  /\ C23_LastResponse.status_code = 409
  /\ t_result.exc = "DocumentDownloadError"

(***************************************************************************)
(* C24: the two transformers on outputs that carry the same information.   *)
(***************************************************************************)
\* the XML answer without publisher and handling events, with the title of
\* GoodJsonDoc and an empty list of categories
C24_XmlBase ==
  XmlDoc(TRUE, TRUE, TRUE, AbsentOrg, GoodXmlTitle,
         [present |-> TRUE, has_list |-> TRUE, informatiecategorieen |-> <<>>],
         [present |-> FALSE, items |-> <<>>])

\* a JSON output and the XML answer that says the same: names in JSON,
\* TOOI codes in XML
C24_Cases ==
  { [case |-> "missing publisher, no category, no handling event",
     json |-> GoodJsonDoc, xml |-> C24_XmlBase],
    [case |-> "category",
     json |-> [GoodJsonDoc EXCEPT !.cc_informatiecategorieen =
                 [kind |-> "list",
                  items |-> << [kind |-> "str", name |-> ADVIEZEN.name] >>]],
     xml |-> [C24_XmlBase EXCEPT !.classificatiecollectie.informatiecategorieen =
                << Str(ADVIEZEN.value) >>]],
    [case |-> "unknown category code",
     json |-> [GoodJsonDoc EXCEPT !.cc_informatiecategorieen =
                 [kind |-> "list",
                  items |-> << [kind |-> "str", name |-> <<"c","_","5","b","a","2","3","c","0","1">>],
                               [kind |-> "str", name |-> ADVIEZEN.name] >>]],
     xml |-> [C24_XmlBase EXCEPT !.classificatiecollectie.informatiecategorieen =
                << Str(<<"c","_","b","o","g","u","s">>), Str(ADVIEZEN.value) >>]],
    [case |-> "date",
     json |-> [GoodJsonDoc EXCEPT !.creatiedatum = RawDate("2024-01-15", "", "")],
     xml |-> [C24_XmlBase EXCEPT !.creatiedatum = RawDate("2024-01-15", "", "")]],
    [case |-> "unparseable date",
     json |-> [GoodJsonDoc EXCEPT !.creatiedatum = RawDate("15 jan 2024", "", "")],
     xml |-> [C24_XmlBase EXCEPT !.creatiedatum = RawDate("15 jan 2024", "", "")]],
    [case |-> "relation",
     json |-> [GoodJsonDoc EXCEPT !.documentrelaties =
                 [kind |-> "list",
                  items |-> << [kind |-> "dict",
                                type |-> [kind |-> "str",
                                          chars |-> <<"V","e","r","v","a","n","g","t">>],
                                label |-> "Besluit 2023"] >>]],
     xml |-> [C24_XmlBase EXCEPT !.documentrelaties =
                [present |-> TRUE,
                 items |-> << [has_role |-> TRUE, has_relation |-> TRUE,
                               role |-> Str(VERVANGT.value),
                               label |-> "Besluit 2023", resource |-> "None"] >>]]],
    [case |-> "unknown relation type",
     json |-> [GoodJsonDoc EXCEPT !.documentrelaties =
                 [kind |-> "list",
                  items |-> << [kind |-> "dict",
                                type |-> [kind |-> "str",
                                          chars |-> <<"c","i","t","e","e","r","t">>],
                                label |-> "Rapport"] >>]],
     xml |-> [C24_XmlBase EXCEPT !.documentrelaties =
                [present |-> TRUE,
                 items |-> << [has_role |-> TRUE, has_relation |-> TRUE,
                               role |-> Str(<<"c","_","c","i","t","e","e","r","t">>),
                               label |-> "Rapport", resource |-> "None"] >>]]],
    [case |-> "relation without label",
     json |-> [GoodJsonDoc EXCEPT !.documentrelaties =
                 [kind |-> "list",
                  items |-> << [kind |-> "dict",
                                type |-> [kind |-> "str",
                                          chars |-> <<"w","i","j","z","i","g","t">>],
                                label |-> ""] >>]],
     xml |-> [C24_XmlBase EXCEPT !.documentrelaties =
                [present |-> TRUE,
                 items |-> << [has_role |-> TRUE, has_relation |-> TRUE,
                               role |-> Str(DocumentRelatie[3].value),
                               label |-> "", resource |-> "None"] >>]]] }

\* C24: on a JSON output and the XML answer with the same information the
\* two transformers give the same record, whatever publisher hint the
\* request carries and also for a relation entry without a label
C24_Equivalent ==
  (t_pc = "done" /\ t_input.mode = "json") =>
    \A c \in C24_Cases :
      t_input.json = c.json => t_result = ParseXmlToDiwoo(c.xml, FALSE, FALSE)

\* C24 (the cases in which the two transformers agree): without a publisher
\* hint, and leaving out the relation entry without a label, the JSON
\* transformer gives the record the XML transformer gives
C24_EquivalentWithoutHint ==
  (t_pc = "done" /\ t_input.mode = "json" /\ ~t_input.hint.present) =>
    \A c \in C24_Cases :
      (t_input.json = c.json /\ c.case # "relation without label")
        => /\ t_result = ParseXmlToDiwoo(c.xml, FALSE, FALSE)
           /\ t_result.exc = "none"

\* the JSON transformer has acted on the output with an unknown relation type
C24_Witness ==
  /\ t_pc = "done" /\ t_input.mode = "json" /\ ~t_input.hint.present
  /\ \E c \in C24_Cases : c.case = "unknown relation type" /\ t_input.json = c.json
  /\ t_result.exc = "none"
  /\ t_result.value.documentrelaties.items
       = << DocumentRelatieItem(HEEFT_BIJLAGE, "None", "Rapport") >>

(***************************************************************************)
(* C25: one provider call per generation request, attempts one at a time.  *)
(***************************************************************************)
\* C25: every request sent belongs to the single chat_completion call of the
\* generation request (the requests sent so far are the attempts of its one
\* retry loop) and asks for the model of the request, attempt k+1 is sent
\* only after attempt k failed and the backoff delay of attempt k was slept,
\* and at most one request is in flight: an HTTP client is open only while
\* the one attempt runs
C25_Sequential ==
  /\ calls <= settings.llm_max_retries
  /\ (entry \in GenerationEntries /\ pc \in {"retry", "in_flight", "sleeping"})
       => /\ request.model = args.model
          /\ effective.model = request.model
  /\ pc = "retry" => /\ calls = attempt - 1
                     /\ Len(retry_log) = attempt - 1
                     /\ attempt > 1 => last_error # NoException
  /\ pc = "in_flight" => /\ calls = attempt
                         /\ Len(retry_log) = attempt - 1
  /\ pc = "sleeping" => /\ calls = attempt
                        /\ Len(retry_log) = attempt
                        /\ last_error # NoException
                        /\ retry_log[attempt].attempt = attempt
                        /\ retry_log[attempt].delay_seconds = Delay(attempt)
  /\ pc \notin {"retry", "in_flight", "sleeping"} => calls \in {0, attempt}
  /\ httpx_open <= 1
  /\ httpx_open = 1 => pc = "in_flight"

\* generate has its third attempt in flight on an httpx path
C25_Witness ==
  /\ entry \in GenerationEntries
  /\ pc = "in_flight"
  /\ attempt = 3 /\ calls = 3
  /\ httpx_open = 1
  /\ Len(retry_log) = 2

(***************************************************************************)
(* C26: requests share the settings and the cached SDK client, and no      *)
(* request changes what another one gets from them.                        *)
(***************************************************************************)
\* a call without overrides is under way with the configured credentials and
\* endpoint, on the openrouter path through the cached client of the settings
C26_DefaultCall ==
  (/\ pc \in {"retry", "in_flight", "sleeping"}
   /\ ~TruthyStr(call.api_key)
   /\ call.custom_base_url = "None")
    => /\ route = Route(settings.llm_provider, "None")
       /\ effective.api_key = settings.llm_api_key
       /\ route = "custom" => effective.base_url = settings.custom_llm_base_url
       /\ (route = "openrouter" /\ pc = "in_flight") => sdk_client = "cached"

C27_Failed ==
  /\ entry \in GenerationEntries
  /\ response.returned /\ ~response.success

\* the failure arose in the provider call: the last attempt raised and no
\* completion came back
C27_ProviderFailure == C27_Failed /\ calls > 0 /\ last_error # NoException

\* the failure arose in the content of a completion that came back
C27_ContentFailure == C27_Failed /\ calls > 0 /\ last_error = NoException

\* the message: the prefix of the except clause and the exception's own text
C27_Message == <<response.error.prefix, response.error.of>>

\* the messages of the four content classes: invalid JSON syntax, invalid
\* XML syntax, schema validation, domain-model validation
C27_ClassMessages ==
  { <<"LLM returned invalid JSON: ", "JSONDecodeError">>,
    <<"LLM returned invalid XML: ", "XMLParseError">>,
    <<"LLM returned invalid XML: ", "XMLValidationError">>,
    <<"Generated metadata validation failed: ", "ValidationError">> }

\* C27: the message of a failure of one of the four content classes is the
\* message of that class, and a provider or network failure has a message of
\* none of the four classes
C27_Distinguishable ==
  /\ C27_ContentFailure =>
       (C27_Message \in C27_ClassMessages
          <=> exc.type \in {"JSONDecodeError", "XMLParseError",
                            "XMLValidationError", "ValidationError"})
  /\ C27_ProviderFailure => C27_Message \notin C27_ClassMessages

\* C27 (what holds): a content failure of one of the four classes has the
\* message of its class, the two XML classes differing in the exception's
\* text only, and a provider failure other than a response body that is no
\* JSON has a message of none of the classes
C27_DistinguishableButBody ==
  /\ C27_ContentFailure =>
       (C27_Message \in C27_ClassMessages
          <=> exc.type \in {"JSONDecodeError", "XMLParseError",
                            "XMLValidationError", "ValidationError"})
  /\ (C27_ProviderFailure /\ last_error.type # "JSONDecodeError")
       => response.error.prefix = ""

\* an attempt on an httpx path ended with a body that is no JSON, in XML mode
C27_Witness ==
  /\ C27_ProviderFailure
  /\ args.output_mode = "xml"
  /\ route = "custom"
  /\ last_error.type = "JSONDecodeError"
  /\ response.error.prefix = "LLM returned invalid JSON: "

(***************************************************************************)
(* C28: the publisher of the JSON transformer's record.                    *)
(***************************************************************************)
\* the JSON transformer returned a record
C28_Transformed ==
  /\ t_pc = "done"
  /\ t_input.mode = "json"
  /\ t_result.exc = "none"

\* the LLM output has a publisher object with a non-empty name
C28_Named ==
  t_input.json.publisher.kind = "dict" /\ t_input.json.publisher.name # ""

\* C28: the publisher of the record is the LLM's publisher name with the
\* placeholder URI of its type (of "organisatie" without a type) when the
\* output names one, whatever the hint; otherwise the hint's name with the
\* hint's URI or the placeholder URI; otherwise the unknown organisation;
\* and the record's one handling event, a registration at the current time,
\* is attributed to that publisher
C28_PublisherPrecedence ==
  C28_Transformed =>
    LET llm == t_input.json.publisher
        hint == t_input.hint
        publisher == t_result.value.publisher
        handelingen == t_result.value.documenthandelingen
    IN  /\ C28_Named =>
             /\ publisher.label = llm.name
             /\ publisher.resource
                  = [kind |-> "placeholder",
                     id |-> IF llm.type = "absent" THEN "organisatie" ELSE llm.type]
        /\ (~C28_Named /\ hint.present) =>
             /\ publisher.label = hint.name
             /\ publisher.resource
                  = IF hint.tooi_uri.kind = "none"
                    THEN [kind |-> "placeholder", id |-> "organisatie"]
                    ELSE hint.tooi_uri
        /\ (~C28_Named /\ ~hint.present) =>
             /\ publisher.label = "Onbekende organisatie"
             /\ publisher.resource = [kind |-> "placeholder", id |-> "organisatie"]
        /\ Len(handelingen) = 1
        /\ handelingen[1].was_associated_with = publisher
        /\ handelingen[1].soort_handeling = REGISTRATIE
        /\ handelingen[1].at_time = "now"

\* a named publisher in the output and a hint with a real URI
C28_Witness ==
  /\ C28_Transformed
  /\ C28_Named
  /\ t_input.json.publisher.type = "gemeente"
  /\ t_input.hint.present
  /\ t_input.hint.tooi_uri.kind = "given"
  /\ t_result.value.publisher.label = "Gemeente LLM"
  /\ t_result.value.publisher.resource.kind = "placeholder"

(***************************************************************************)
(* C29: what with_retry does not retry.                                    *)
(***************************************************************************)
\* the last attempt raised an exception that is neither an HTTP status error
\* nor a network error
C29_OtherError ==
  /\ last_error # NoException
  /\ last_error.type # "HTTPStatusError"
  /\ last_error.type \notin RequestErrors

\* the path's precondition fails: no base URL on the custom path, no API key
\* on the Anthropic path
C29_PreconditionFails ==
  /\ pc \notin {"start", "generate", "chat_completion"}
  /\ \/ route = "custom" /\ ~TruthyStr(effective.base_url)
     \/ route = "anthropic" /\ ~TruthyStr(effective.api_key)

\* what holds in a state: the other exception left the loop unchanged, after
\* the attempt that raised it and without a backoff; the precondition's
\* ValueError was raised with no request sent and the loop never entered
C29_State ==
  /\ C29_OtherError =>
       /\ pc \notin {"retry", "in_flight", "sleeping"}
       /\ calls = attempt
       /\ Len(retry_log) = attempt - 1
       /\ exc = last_error
       /\ exc_cause = NoException
  /\ C29_PreconditionFails =>
       /\ exc = Exception("ValueError")
       /\ calls = 0
       /\ attempt = 0
       /\ retry_log = <<>>
       /\ httpx_open = 0

\* C29: an exception of an attempt that is neither an HTTP status error nor a
\* network error propagates unchanged and no further request of the call is
\* sent after it; a failing precondition of the custom or the Anthropic path
\* raises ValueError before any request and before the loop, and no request
\* of the call follows
C29_NotRetried ==
  [][/\ C29_State'
     /\ (C29_OtherError \/ C29_PreconditionFails) => calls' \in {calls, 0}]_vars

\* the third attempt of a call answered with a body that is no JSON
C29_Witness ==
  /\ C29_OtherError
  /\ last_error.type = "JSONDecodeError"
  /\ attempt = 3 /\ calls = 3
  /\ settings.llm_max_retries = MaxAttempts
  /\ exc = last_error

\* the Anthropic path without an API key raised its ValueError
C29_WitnessPrecondition ==
  /\ C29_PreconditionFails
  /\ route = "anthropic"
  /\ exc = Exception("ValueError")
  /\ calls = 0

(***************************************************************************)
(* C30: who closes the provider client, closing twice, calling after       *)
(* close.                                                                  *)
(***************************************************************************)
\* a call is in flight with a client to send it through: the cached SDK
\* client on the openrouter path without a per-request key, an httpx client
\* on the other paths
C30_Working ==
  pc = "in_flight" =>
    /\ (route = "openrouter" /\ ~TruthyStr(call.api_key)) => sdk_client = "cached"
    /\ route \in {"custom", "anthropic"} => httpx_open = 1

\* C30: a generator holding an injected client never drops that client's SDK
\* client; the SDK client of a generation request is dropped only by close()
\* of a generator that created its client; close() without a client and a
\* second close() change nothing and raise nothing; and every call, also a
\* generate after close() and a chat_completion after close(), has a client
\* to send its request through
C30_ClientLifecycle ==
  [][/\ (entry \in GenerationEntries /\ ~generator.owns_client
           /\ sdk_client = "cached") => sdk_client' = "cached"
     /\ (entry \in GenerationEntries /\ sdk_client = "cached"
           /\ sdk_client' = "None")
          => /\ generator.owns_client /\ generator.client
             /\ pc \in {"gen_returned", "gen_raised"}
     /\ (pc \in {"gen_returned", "gen_raised"} /\ ~generator.client)
          => /\ sdk_client' = sdk_client
             /\ exc' = exc /\ response' = response
             /\ pc' = IF pc = "gen_returned" THEN "handler_returned"
                      ELSE "handler_raised"
     /\ pc' = "closed_again"
          => /\ generator.closed
             /\ sdk_client' = sdk_client
             /\ exc' = exc /\ response' = response
             /\ generator' = generator
     /\ C30_Working']_vars

\* a generator that created its client was closed twice, generate was called
\* again and its request is in flight through a new cached SDK client
C30_Witness ==
  /\ entry = "generate"
  /\ generator.owns_client /\ generator.closed /\ generator.again
  /\ pc = "in_flight"
  /\ route = "openrouter"
  /\ sdk_client = "cached"
  /\ sdk_open = 2

\* the generator with an injected client was closed and the client's SDK
\* client is still there
C30_WitnessInjected ==
  /\ entry = "generate"
  /\ ~generator.owns_client /\ generator.client /\ generator.closed
  /\ pc = "closed_again"
  /\ sdk_client = "cached"

\* the generate after close() returned a success response
C30_WitnessLaterSuccess ==
  /\ entry = "generate"
  /\ generator.again
  /\ pc = "gen_returned"
  /\ response.returned /\ response.success

====
